---- MODULE Spec2Model ----
(***************************************************************************)
(* Verification model of the review orchestration engine of sf-demo:       *)
(*   - ContextFetcher (src/src/services/context-fetcher.ts), the           *)
(*     dependency resolver, with SalesforceFileDetector                    *)
(*     (src/src/utils/salesforce-files.ts) and the GitHubClient calls it    *)
(*     makes (src/src/github/client.ts);                                    *)
(*   - LLMManager (src/unnamed/part_002) and the provider adapters with    *)
(*     BaseLLMProvider.parseReviewResponse (src/src/types/index.ts);       *)
(*   - ReviewService (src/src/github/client.ts), the per-PR review run.    *)
(* Paths and texts are strings; TLC evaluates \o, Len and SubSeq on them.  *)
(***************************************************************************)
EXTENDS Integers, Sequences, FiniteSets, Bags, TLC

(***************************************************************************)
(* State                                                                    *)
(***************************************************************************)
VARIABLES
    \* ContextFetcher
    rPc,            \* "idle" | "loop" | "done": position of fetchContextFiles
    changedFiles,   \* filenames of the changedFiles argument
    processOrder,   \* high, then medium, then low
    orderIdx,       \* next index of the for loop over processOrder
    visitedFiles,   \* this.visitedFiles
    contextFiles,   \* this.contextFiles: path -> ContextFile
    depStack,       \* the for loops over dependencyPaths of the active processFile calls
    contentCalls,   \* bag of paths given to getFileContent in this run
    probeCalls,     \* bag of paths given to repos.getContent by findExistingFiles
    resolved,       \* the returned Map, a copy of contextFiles
    fetchLog,       \* how each getFileContent call of this run ended, in order
    \* BaseLLMProvider.parseReviewResponse
    pPc,            \* "input" | "parsed"
    responseText,   \* the response argument
    parsed,         \* the returned LLMResponse
    \* ReviewService.reviewPullRequest with LLMManager.generateReview
    pc,             \* position of the run
    request,        \* the ReviewRequest
    prFiles,        \* the changed files of the pull request, as GitHub lists them
    salesforceFiles,\* the files the loop reviews
    fileIdx,        \* next index of the for loop over salesforceFiles
    reviewResults,  \* reviewResults
    allFeedback,    \* allFeedback
    callStatus,     \* "none" | "running" | "returned" | "failed": the last generateReview call
    providerLog,    \* the adapter calls of the last generateReview call and how they ended
    primaryError,   \* primaryError of the last call, "" when none
    fallbackError,  \* fallbackError of the last call, "" when none
    callError,      \* the error the last call threw, "" when none
    fileLog,        \* per file of the loop so far: how its review ended
    fileFetches,    \* the getFileContent calls of the loop so far and how they ended
    summaryListing, \* "none" | "listed" | "failed": the getPullRequestFiles call made for the summary
    inlineIdx,      \* next index of the loop of postInlineComments
    posts,          \* every submission attempted on the pull request, in order
    runError,       \* the error the run caught at its top or threw, "" when none
    \* one call of a function of SalesforceFileDetector or ContextFetcher
    fnPc,           \* "idle" | "input" | "returned"
    fnArgs,         \* the arguments
    fnResult,       \* what the call returned
    \* fetchContextFiles calls in flight on one ContextFetcher
    runs,           \* per call: its position and its locals
    sharedVisited,  \* this.visitedFiles
    sharedContext,  \* this.contextFiles
    \* reviewPullRequest calls in flight on one ReviewService
    reviews         \* per call: its position, its locals and what it submitted

resolverVars == <<rPc, changedFiles, processOrder, orderIdx, visitedFiles,
                  contextFiles, depStack, contentCalls, probeCalls, resolved, fetchLog>>

parseVars == <<pPc, responseText, parsed>>

runVars == <<pc, request, prFiles, salesforceFiles, fileIdx, reviewResults, allFeedback,
             callStatus, providerLog, primaryError, fallbackError, callError, fileLog,
             fileFetches, summaryListing, inlineIdx, posts, runError>>

callVars == <<fnPc, fnArgs, fnResult>>

sharedVars == <<runs, sharedVisited, sharedContext, reviews>>

vars == <<resolverVars, parseVars, runVars, callVars, sharedVars>>

(***************************************************************************)
(* String helpers (JavaScript String methods used by the source).          *)
(***************************************************************************)
\* String.prototype.endsWith
EndsWith(s, suf) ==
    /\ Len(s) >= Len(suf)
    /\ SubSeq(s, Len(s) - Len(suf) + 1, Len(s)) = suf

\* String.prototype.startsWith
StartsWith(s, pre) ==
    /\ Len(s) >= Len(pre)
    /\ SubSeq(s, 1, Len(pre)) = pre

\* String.prototype.includes
Includes(s, sub) ==
    \E i \in 1..(Len(s) - Len(sub) + 1) : SubSeq(s, i, i + Len(sub) - 1) = sub

\* String.prototype.lastIndexOf for a one-character needle, 1-based; 0 when absent
LastIndexOf(s, ch) ==
    LET hits == {i \in 1..Len(s) : SubSeq(s, i, i) = ch}
    IN  IF hits = {} THEN 0 ELSE CHOOSE i \in hits : \A j \in hits : j <= i

\* the elements of a sequence, as a set
Range(seq) == {seq[i] : i \in 1..Len(seq)}

\* [...new Set(seq)]: first occurrences, in order
RECURSIVE Dedupe(_)
Dedupe(seq) ==
    IF seq = <<>> THEN <<>>
    ELSE LET init == Dedupe(SubSeq(seq, 1, Len(seq) - 1))
             last == seq[Len(seq)]
         IN  IF last \in Range(init) THEN init ELSE Append(init, last)

\* concatenation of a sequence of sequences (push(...xs) over a loop)
RECURSIVE Flatten(_)
Flatten(seqs) ==
    IF seqs = <<>> THEN <<>> ELSE Head(seqs) \o Flatten(Tail(seqs))

(***************************************************************************)
(* SalesforceFileDetector                                                   *)
(***************************************************************************)
SALESFORCE_FILE_TYPES == <<
    [extension |-> ".cls",                    type |-> "apex-class",   priority |-> "high"],
    [extension |-> ".cls-meta.xml",           type |-> "apex-class",   priority |-> "high"],
    [extension |-> ".trigger",                type |-> "apex-trigger", priority |-> "high"],
    [extension |-> ".trigger-meta.xml",       type |-> "apex-trigger", priority |-> "high"],
    [extension |-> ".js",                     type |-> "lwc",          priority |-> "medium"],
    [extension |-> ".js-meta.xml",            type |-> "lwc",          priority |-> "medium"],
    [extension |-> ".html",                   type |-> "lwc",          priority |-> "medium"],
    [extension |-> ".css",                    type |-> "lwc",          priority |-> "medium"],
    [extension |-> ".cmp",                    type |-> "aura",         priority |-> "medium"],
    [extension |-> ".cmp-meta.xml",           type |-> "aura",         priority |-> "medium"],
    [extension |-> ".app",                    type |-> "aura",         priority |-> "medium"],
    [extension |-> ".app-meta.xml",           type |-> "aura",         priority |-> "medium"],
    [extension |-> ".object-meta.xml",        type |-> "object",       priority |-> "medium"],
    [extension |-> ".field-meta.xml",         type |-> "object",       priority |-> "medium"],
    [extension |-> ".flow-meta.xml",          type |-> "flow",         priority |-> "low"],
    [extension |-> ".permissionset-meta.xml", type |-> "permission",   priority |-> "low"],
    [extension |-> ".profile-meta.xml",       type |-> "permission",   priority |-> "low"],
    [extension |-> ".layout-meta.xml",        type |-> "other",        priority |-> "low"],
    [extension |-> ".component",              type |-> "other",        priority |-> "low"],
    [extension |-> ".page",                   type |-> "other",        priority |-> "low"] >>

\* the null of getFileType
NoFileType == [extension |-> "", type |-> "null", priority |-> "other"]

\* mutant of isSalesforceFile: the extension may stand anywhere in the name
isSalesforceFileAnywhere(filename) ==
    \E i \in 1..Len(SALESFORCE_FILE_TYPES) :
        Includes(filename, SALESFORCE_FILE_TYPES[i].extension)

isSalesforceFile(filename) ==
    \E i \in 1..Len(SALESFORCE_FILE_TYPES) :
        EndsWith(filename, SALESFORCE_FILE_TYPES[i].extension)

\* Array.prototype.find: the first matching table entry, or null
getFileType(filename) ==
    LET hits == {i \in 1..Len(SALESFORCE_FILE_TYPES) :
                    EndsWith(filename, SALESFORCE_FILE_TYPES[i].extension)}
    IN  IF hits = {} THEN NoFileType
        ELSE SALESFORCE_FILE_TYPES[CHOOSE i \in hits : \A j \in hits : i <= j]

IsHigh(f)   == getFileType(f).priority = "high"
IsMedium(f) == getFileType(f).priority = "medium"
IsLow(f)    == getFileType(f).priority = "low"
IsOther(f)  == getFileType(f) = NoFileType

\* mutant of getFilesByPriority: the high and medium buckets are swapped
getFilesByPriorityMediumFirst(filenames) ==
    [high   |-> SelectSeq(filenames, IsMedium),
     medium |-> SelectSeq(filenames, IsHigh),
     low    |-> SelectSeq(filenames, IsLow),
     other  |-> SelectSeq(filenames, IsOther)]

getFilesByPriority(filenames) ==
    [high   |-> SelectSeq(filenames, IsHigh),
     medium |-> SelectSeq(filenames, IsMedium),
     low    |-> SelectSeq(filenames, IsLow),
     other  |-> SelectSeq(filenames, IsOther)]

(***************************************************************************)
(* File contents are abstracted to what the extraction patterns match in   *)
(* them: the sequence of captures of the Apex patterns (extends/implements,*)
(* new X(, X.m( in that order), of the import pattern and of the Aura tag  *)
(* pattern.  The empty string content is EmptyContent.                      *)
(***************************************************************************)
EmptyContent == [empty |-> TRUE, apex |-> <<>>, imports |-> <<>>, aura |-> <<>>]

Content(apexRefs, importRefs, auraRefs) ==
    [empty |-> FALSE, apex |-> apexRefs, imports |-> importRefs, aura |-> auraRefs]

\* mutant of extractDependencies: the result is not passed through a Set
extractDependenciesKeepingRepeats(content, fileType) ==
    CASE fileType.type \in {"apex-class", "apex-trigger"} -> content.apex
      [] fileType.type = "lwc"  -> content.imports
      [] fileType.type = "aura" -> content.aura
      [] OTHER -> <<>>

extractDependencies(content, fileType) ==
    Dedupe(CASE fileType.type \in {"apex-class", "apex-trigger"} -> content.apex
             [] fileType.type = "lwc"  -> content.imports
             [] fileType.type = "aura" -> content.aura
             [] OTHER -> <<>>)

(***************************************************************************)
(* Bounds of the model.                                                     *)
(***************************************************************************)
\* config.review.maxContextFiles of the modelled deployment
MaxContextFiles == 2

(***************************************************************************)
(* The repository at the reviewed ref, as the GitHub collaborator answers. *)
(***************************************************************************)
ClassesDir == "force-app/main/default/classes"
PathA == ClassesDir \o "/A.cls"
PathB == ClassesDir \o "/B.cls"
PathC == "src/classes/C.cls"
PathT == "force-app/main/default/triggers/T.trigger"
PathU == "util/U.cls"
PathU2 == "util/UTest.cls"
PathJ == "force-app/main/default/lwc/c/c.js"
PathH == "force-app/main/default/lwc/c/helper/helper.js"
PathF == "force-app/main/default/flows/F.flow-meta.xml"
PathDoc == "docs/U.md"

\* the files that exist at the ref
RepoFiles == {PathA, PathB, PathC, PathT, PathU, PathU2, PathJ, PathH, PathF, PathDoc}

\* what the patterns can capture in a file of the repository
ApexRefChoices == {<<>>, <<"B">>, <<"A", "C">>, <<"B", "U">>, <<"c">>}
ImportChoices == {<<"lwc">>, <<"helper", "lwc">>}

\* the contents the repository may hold for a path ('' when empty or too large)
PossibleContents(path) ==
    {EmptyContent} \cup
    (CASE getFileType(path).type \in {"apex-class", "apex-trigger"} ->
              {Content(r, <<>>, <<>>) : r \in ApexRefChoices}
       [] getFileType(path).type = "lwc" ->
              {Content(<<>>, r, <<>>) : r \in ImportChoices}
       [] OTHER -> {Content(<<>>, <<>>, <<>>)})

\* GitHubClient.getFileContent: the text, '' for a file over the size limit,
\* or a thrown error (not found, not a file, transport)
GetFileContentOutcomes(path) ==
    {[kind |-> "throw", content |-> EmptyContent]} \cup
    (IF path \in RepoFiles
     THEN {[kind |-> "ok", content |-> c] : c \in PossibleContents(path)}
     ELSE {})

\* GitHubClient.searchCodeInRepository for `class X OR interface X`: the paths
\* of the first page of matches
SearchIndex(dependency) ==
    CASE dependency = "U" -> <<PathDoc, PathU, PathU2, PathC>>
      [] dependency = "helper" -> <<PathDoc>>
      [] OTHER -> <<>>

(***************************************************************************)
(* ContextFetcher                                                           *)
(***************************************************************************)
\* the changedFiles arguments tried
ChangedInputs ==
    { <<>>,
      <<PathF, PathJ, PathA>>,
      <<PathA, PathT, PathB>>,
      <<PathDoc, PathT>>,
      <<PathJ, PathC, "force-app/main/default/classes/Gone.cls">> }

BagOfSeq(seq) ==
    [x \in Range(seq) |-> Cardinality({i \in 1..Len(seq) : seq[i] = x})]

generatePossiblePaths(dependency, currentDir) ==
    LET apexExtensions == <<".cls", ".trigger">>
        lwcExtensions == <<".js", ".html", ".css">>
        metadataExtensions == <<".object-meta.xml", ".field-meta.xml">>
        apex(ext) == << currentDir \o "/" \o dependency \o ext,
                        "force-app/main/default/classes/" \o dependency \o ext,
                        "src/classes/" \o dependency \o ext,
                        "classes/" \o dependency \o ext >>
        lwc(ext) == << currentDir \o "/" \o dependency \o "/" \o dependency \o ext,
                       "force-app/main/default/lwc/" \o dependency \o "/" \o dependency \o ext,
                       "src/lwc/" \o dependency \o "/" \o dependency \o ext >>
        meta(ext) == << "force-app/main/default/objects/" \o dependency \o "/" \o dependency \o ext,
                        "src/objects/" \o dependency \o ext >>
    IN  Flatten([i \in 1..2 |-> apex(apexExtensions[i])])
        \o Flatten([i \in 1..3 |-> lwc(lwcExtensions[i])])
        \o Flatten([i \in 1..2 |-> meta(metadataExtensions[i])])

\* currentFile.substring(0, currentFile.lastIndexOf('/'))
DirOf(currentFile) == SubSeq(currentFile, 1, LastIndexOf(currentFile, "/") - 1)

\* GitHubClient.findExistingFiles: one repos.getContent per candidate, in order;
\* a probe that throws (not found, or transport failure: the paths in down)
\* drops the candidate
findExistingFiles(filePaths, down) ==
    LET found(p) == p \in RepoFiles /\ p \notin down
    IN  SelectSeq(filePaths, found)

\* mutant of ResolveOne: the code search runs for every dependency
ResolveOneAlwaysSearching(dependency, currentDir, down, searchDown) ==
    LET existingPaths == findExistingFiles(generatePossiblePaths(dependency, currentDir), down)
        searchResults == IF dependency \in searchDown THEN <<>> ELSE SearchIndex(dependency)
        salesforceResults == SelectSeq(searchResults, isSalesforceFile)
    IN  existingPaths \o
        SubSeq(salesforceResults, 1, IF Len(salesforceResults) < 2
                                     THEN Len(salesforceResults) ELSE 2)

\* the paths one dependency adds to resolvedPaths; searchDown are the names whose
\* code search fails (searchCodeInRepository then returns [])
ResolveOne(dependency, currentDir, down, searchDown) ==
    LET existingPaths == findExistingFiles(generatePossiblePaths(dependency, currentDir), down)
        searchResults == IF dependency \in searchDown THEN <<>> ELSE SearchIndex(dependency)
        salesforceResults == SelectSeq(searchResults, isSalesforceFile)
    IN  existingPaths \o
        (IF Len(existingPaths) = 0
         THEN SubSeq(salesforceResults, 1, IF Len(salesforceResults) < 2
                                           THEN Len(salesforceResults) ELSE 2)
         ELSE <<>>)

resolveDependencyPaths(dependencies, currentFile, down, searchDown) ==
    Dedupe(Flatten([i \in 1..Len(dependencies) |->
                      ResolveOne(dependencies[i], DirOf(currentFile), down, searchDown)]))

\* every path findExistingFiles probes while resolving these dependencies
ProbedPaths(dependencies, currentFile) ==
    Flatten([i \in 1..Len(dependencies) |->
               generatePossiblePaths(dependencies[i], DirOf(currentFile))])

\* mutant of BudgetReached: the size checks are missing
BudgetNeverReached(files) == FALSE

\* mutant of BudgetReached: the comparison off by one (> for >=)
BudgetReachedOffByOne(files) == Cardinality(DOMAIN files) > MaxContextFiles

\* this.contextFiles.size >= config.review.maxContextFiles
BudgetReached(files) == Cardinality(DOMAIN files) >= MaxContextFiles

ContextFile(filePath, content, fileType) ==
    [path |-> filePath, content |-> content, type |-> fileType.type]

\* mutant of RecordsNothing: the `!content` return is missing
RecordsNothingUnlessUntyped(content, fileType) == fileType = NoFileType

\* processFile returns before contextFiles.set: `!content`, then `!fileType`
RecordsNothing(content, fileType) == content.empty \/ fileType = NoFileType

\* mutant of CatchProcessFile: the error leaves every dependency loop and is
\* caught by the loop over processOrder only
CatchProcessFileInMainLoopOnly(stack) == <<>>

\* the catch of processFile logs and returns to the caller, whose loops go on
CatchProcessFile(stack) == stack

\* processFile(filePath) called with `stack` as the loops of its callers: the
\* visited check, the content fetch, the insertion and fetchDependencies up to
\* the first iteration of its loop over the dependency paths
\* mutant of HasVisited: the visited set is never consulted
HasVisitedNever(visited, filePath) == FALSE

\* this.visitedFiles.has(filePath)
HasVisited(visited, filePath) == filePath \in visited

ProcessFile(filePath, stack) ==
    IF HasVisited(visitedFiles, filePath)
    THEN /\ depStack' = stack
         /\ UNCHANGED <<visitedFiles, contextFiles, contentCalls, probeCalls, fetchLog>>
    ELSE
    /\ visitedFiles' = visitedFiles \cup {filePath}
    /\ contentCalls' = contentCalls (+) SetToBag({filePath})
    /\ \E out \in GetFileContentOutcomes(filePath) :
         /\ fetchLog' = Append(fetchLog, [path |-> filePath, kind |-> out.kind,
                                          content |-> out.content, depth |-> Len(stack)])
         /\ LET fileType == getFileType(filePath)
                stored == [p \in DOMAIN contextFiles \cup {filePath} |->
                             IF p = filePath
                             THEN ContextFile(filePath, out.content, fileType)
                             ELSE contextFiles[p]]
                dependencies == extractDependencies(out.content, fileType)
            IN
            IF out.kind = "throw"
            THEN /\ depStack' = CatchProcessFile(stack)
                 /\ UNCHANGED <<contextFiles, probeCalls>>
            ELSE IF RecordsNothing(out.content, fileType)
            THEN /\ depStack' = stack
                 /\ UNCHANGED <<contextFiles, probeCalls>>
            ELSE
            /\ contextFiles' = stored
            /\ IF BudgetReached(stored) \/ Len(dependencies) = 0
               THEN /\ depStack' = stack
                    /\ UNCHANGED probeCalls
               ELSE
               \/ \* getInstallationOctokit of findExistingFiles throws: caught by processFile
                  /\ depStack' = CatchProcessFile(stack)
                  /\ UNCHANGED probeCalls
               \/ \E down \in SUBSET (Range(ProbedPaths(dependencies, filePath)) \cap RepoFiles),
                     searchDown \in SUBSET Range(dependencies) :
                    /\ probeCalls' = probeCalls (+) BagOfSeq(ProbedPaths(dependencies, filePath))
                    /\ depStack' = <<resolveDependencyPaths(dependencies, filePath, down, searchDown)>>
                                   \o stack

\* fetchContextFiles up to its loop: clears both collections and orders the files
FetchContextFiles ==
    /\ rPc \in {"idle", "done"}
    /\ \E files \in ChangedInputs :
         LET sfFiles == SelectSeq(files, isSalesforceFile)
             prioritizedFiles == getFilesByPriority(sfFiles)
         IN  /\ changedFiles' = files
             /\ processOrder' = prioritizedFiles.high \o prioritizedFiles.medium
                                \o prioritizedFiles.low
    /\ visitedFiles' = {}
    /\ contextFiles' = <<>>
    /\ orderIdx' = 1
    /\ depStack' = <<>>
    /\ contentCalls' = EmptyBag
    /\ probeCalls' = EmptyBag
    /\ resolved' = <<>>
    /\ fetchLog' = <<>>
    /\ rPc' = "loop"
    /\ UNCHANGED <<parseVars, runVars, callVars, sharedVars>>

\* one iteration of the for loop over processOrder
MainLoopStep ==
    /\ rPc = "loop"
    /\ depStack = <<>>
    /\ orderIdx <= Len(processOrder)
    /\ ~BudgetReached(contextFiles)
    /\ orderIdx' = orderIdx + 1
    /\ ProcessFile(processOrder[orderIdx], <<>>)
    /\ UNCHANGED <<rPc, changedFiles, processOrder, resolved>>
    /\ UNCHANGED <<parseVars, runVars, callVars, sharedVars>>

\* one iteration of the for loop over dependencyPaths of the innermost processFile
DepLoopStep ==
    /\ rPc = "loop"
    /\ depStack # <<>>
    /\ LET paths == Head(depStack)
           rest == Tail(depStack)
       IN  IF paths = <<>> \/ BudgetReached(contextFiles)
           THEN /\ depStack' = rest
                /\ UNCHANGED <<visitedFiles, contextFiles, contentCalls, probeCalls, fetchLog>>
           ELSE ProcessFile(Head(paths), <<Tail(paths)>> \o rest)
    /\ UNCHANGED <<rPc, changedFiles, processOrder, orderIdx, resolved>>
    /\ UNCHANGED <<parseVars, runVars, callVars, sharedVars>>

\* the loop over processOrder ends (exhausted, or the budget break): return the copy
ReturnContext ==
    /\ rPc = "loop"
    /\ depStack = <<>>
    /\ orderIdx > Len(processOrder) \/ BudgetReached(contextFiles)
    /\ resolved' = contextFiles
    /\ rPc' = "done"
    /\ UNCHANGED <<changedFiles, processOrder, orderIdx, visitedFiles, contextFiles,
                   depStack, contentCalls, probeCalls, fetchLog>>
    /\ UNCHANGED <<parseVars, runVars, callVars, sharedVars>>

(***************************************************************************)
(* Properties of the dependency resolver                                    *)
(***************************************************************************)
\* C1: the context set never holds more than maxContextFiles entries, in every
\* intermediate state of a resolution and in the returned map.
C1_BudgetInvariant ==
    /\ Cardinality(DOMAIN contextFiles) <= MaxContextFiles
    /\ Cardinality(DOMAIN resolved) <= MaxContextFiles

\* a run returned a full context set while changed files were still unprocessed
C1_Witness ==
    /\ rPc = "done"
    /\ Cardinality(DOMAIN resolved) = MaxContextFiles
    /\ orderIdx <= Len(processOrder)

\* the number of repos.getContent requests made for a path in this run, by
\* getFileContent and by the existence probes of findExistingFiles
GetContentRequests(path) == CopiesIn(path, contentCalls) + CopiesIn(path, probeCalls)

\* C2: within one run the resolver never fetches the content of the same path
\* twice (every repos.getContent request for a path counts as a fetch of it).
C2_NoDuplicateFetch ==
    \A path \in BagToSet(contentCalls) \cup BagToSet(probeCalls) :
        GetContentRequests(path) <= 1

\* getFileType of every path a run can meet, tabulated
KnownPaths == RepoFiles \cup UNION {Range(files) : files \in ChangedInputs}
FileTypeOf == [path \in KnownPaths |-> getFileType(path)]

\* the tiers as ranks: high before medium before low
TierRank(path) ==
    CASE FileTypeOf[path].priority = "high" -> 1
      [] FileTypeOf[path].priority = "medium" -> 2
      [] OTHER -> 3

\* the position of a filename in the changedFiles argument
InputIndex(path) == CHOOSE i \in 1..Len(changedFiles) : changedFiles[i] = path

\* processOrder holds the changed files of a recognized category and no other
\* path, high tier before medium before low, in input order inside a tier
OrderedByTier ==
    /\ Range(processOrder) = {f \in Range(changedFiles) : FileTypeOf[f] # NoFileType}
    /\ \A i, j \in 1..Len(processOrder) :
         i < j => /\ TierRank(processOrder[i]) <= TierRank(processOrder[j])
                  /\ TierRank(processOrder[i]) = TierRank(processOrder[j])
                       => InputIndex(processOrder[i]) < InputIndex(processOrder[j])

\* the fetches of the run before the i-th
FetchedBefore(i) == {fetchLog[j].path : j \in 1..(i - 1)}

\* the changed files of a higher tier than path
HigherTier(path) == {q \in Range(processOrder) : TierRank(q) < TierRank(path)}

\* C21 as stated: the changed files without a recognized category are ignored,
\* the others are ordered high, medium, low (input order inside a tier), and
\* the content of a changed file is fetched only after every changed file of
\* a higher tier was fetched.
C21_BudgetSpentByTier ==
    /\ OrderedByTier
    /\ \A i \in 1..Len(fetchLog) :
         fetchLog[i].path \in Range(processOrder)
            => HigherTier(fetchLog[i].path) \subseteq FetchedBefore(i)

\* C21 amended: the same ordering, and a changed file gets its turn in the loop
\* over the ordered candidates only after every changed file of a higher tier
\* was fetched (as a dependency of an earlier candidate it can be fetched
\* before them).
C21_CandidateOrdering ==
    /\ OrderedByTier
    /\ \A i \in 1..Len(fetchLog) :
         (fetchLog[i].depth = 0 /\ fetchLog[i].path \in Range(processOrder))
            => HigherTier(fetchLog[i].path) \subseteq FetchedBefore(i)
    /\ \A i \in 1..Len(fetchLog) :
         fetchLog[i].depth = 0 => fetchLog[i].path \in Range(processOrder)

\* a run over a low, a medium and a high tier file given in that order fetched
\* all three from the loop over the candidates
C21_Witness ==
    /\ rPc = "done"
    /\ changedFiles = <<PathF, PathJ, PathA>>
    /\ \A f \in Range(changedFiles) :
         \E i \in 1..Len(fetchLog) : fetchLog[i].path = f /\ fetchLog[i].depth = 0

\* the context set holds the configured maximum
AtCeiling == Cardinality(DOMAIN contextFiles) >= MaxContextFiles

\* C22: once the context set holds the configured maximum, the run issues no
\* further repos.getContent request, neither a content fetch of a remaining
\* changed file or dependency nor an existence probe, and stores nothing more.
C22_HardCeiling ==
    [][(rPc = "loop" /\ AtCeiling)
         => UNCHANGED <<contentCalls, probeCalls, fetchLog, visitedFiles, contextFiles>>]_vars

\* a run returned a full context set while a changed file and an existing
\* dependency candidate it had probed were never fetched
C22_Witness ==
    /\ rPc = "done"
    /\ Cardinality(DOMAIN resolved) = MaxContextFiles
    /\ \E i \in 1..Len(processOrder) : processOrder[i] \notin visitedFiles
    /\ \E p \in BagToSet(probeCalls) \cap RepoFiles :
         p \notin visitedFiles /\ p \notin Range(processOrder)

\* the loops of depStack still hold every candidate after the one just handled
RemainingKept(before, after) ==
    \E k \in 1..Len(after) :
        SubSeq(after, k, Len(after)) = <<Tail(Head(before))>> \o Tail(before)

\* C19: whatever content fetches, existence probes and code searches fail,
\* fetchContextFiles never raises (a step of a run leaves it in its loop or
\* returns), no accumulated context file is dropped, the returned map is what
\* was accumulated, and handling one candidate, failing or not, leaves the
\* remaining candidates of every active loop to be processed.
C19_FailureSemantics ==
    [][rPc = "loop" =>
        /\ rPc' \in {"loop", "done"}
        /\ \A p \in DOMAIN contextFiles :
              p \in DOMAIN contextFiles' /\ contextFiles'[p] = contextFiles[p]
        /\ rPc' = "done" => resolved' = contextFiles
        /\ (depStack # <<>> /\ Head(depStack) # <<>> /\ ~BudgetReached(contextFiles))
              => RemainingKept(depStack, depStack')
        /\ (depStack = <<>> /\ rPc' = "loop") => orderIdx' = orderIdx + 1
    ]_vars

\* a run returned a file stored before and a dependency stored after the fetch
\* of another dependency candidate failed
C19_Witness ==
    /\ rPc = "done"
    /\ \E i, j, k \in 1..Len(fetchLog) :
         /\ k < i /\ i < j
         /\ fetchLog[k].path \in DOMAIN resolved
         /\ fetchLog[i].kind = "throw"
         /\ fetchLog[i].path \notin Range(processOrder)
         /\ fetchLog[j].path \in DOMAIN resolved
         /\ fetchLog[j].path \notin Range(processOrder)

\* the getFileContent calls of the run that gave nothing to record
Unrecordable ==
    {i \in 1..Len(fetchLog) :
        \/ fetchLog[i].kind = "throw"
        \/ fetchLog[i].content.empty
        \/ FileTypeOf[fetchLog[i].path] = NoFileType}

\* C20: every entry of the returned context set is keyed by a path whose
\* content was fetched successfully and is not empty, holds that content, and
\* records the category getFileType gives the path; a path whose fetch failed,
\* gave empty content (a file over the size limit included) or has no
\* recognized category is not in the set.
C20_OnlyFetchedAndTyped ==
    /\ \A p \in DOMAIN resolved :
         /\ resolved[p].path = p
         /\ \E i \in 1..Len(fetchLog) :
              /\ fetchLog[i].path = p
              /\ fetchLog[i].kind = "ok"
              /\ ~fetchLog[i].content.empty
              /\ resolved[p].content = fetchLog[i].content
         /\ FileTypeOf[p] # NoFileType
         /\ resolved[p].type = FileTypeOf[p].type
    /\ \A i \in Unrecordable : fetchLog[i].path \notin DOMAIN resolved

\* a run returned entries after one fetch failed and another gave empty content
C20_Witness ==
    /\ rPc = "done"
    /\ DOMAIN resolved # {}
    /\ \E i, j \in Unrecordable :
         fetchLog[i].kind = "throw" /\ fetchLog[j].kind = "ok" /\ fetchLog[j].content.empty

(***************************************************************************)
(* JavaScript values as decoded by JSON.parse, tagged by their type.        *)
(***************************************************************************)
JUndefined == [t |-> "undefined"]
JNull == [t |-> "null"]
JNum(n) == [t |-> "number", n |-> n]
JStr(str) == [t |-> "string", s |-> str]
JArr(seq) == [t |-> "array", a |-> seq]
JObj(fields) == [t |-> "object", o |-> fields]
\* the outcome of JSON.parse on a text that is no JSON document (SyntaxError)
NotJson == [t |-> "syntax-error"]
\* {} as a field map
NoFields == [k \in {} |-> JUndefined]

\* property access obj.key
Get(v, key) == IF v.t = "object" /\ key \in DOMAIN v.o THEN v.o[key] ELSE JUndefined

\* ToBoolean
Truthy(v) ==
    CASE v.t = "number" -> v.n # 0
      [] v.t = "string" -> v.s # ""
      [] v.t \in {"array", "object"} -> TRUE
      [] OTHER -> FALSE

\* typeof
TypeOf(v) ==
    CASE v.t \in {"array", "object", "null"} -> "object"
      [] OTHER -> v.t

(***************************************************************************)
(* More String methods                                                      *)
(***************************************************************************)
CharAt(s, i) == SubSeq(s, i, i)

IsWhitespace(c) == c \in {" ", "\n", "\t", "\r"}

IsDigit(c) == c \in {"0", "1", "2", "3", "4", "5", "6", "7", "8", "9"}

\* the leading \s* removed
TrimStart(s) ==
    IF \A i \in 1..Len(s) : IsWhitespace(CharAt(s, i)) THEN ""
    ELSE SubSeq(s, CHOOSE i \in 1..Len(s) :
                       /\ ~IsWhitespace(CharAt(s, i))
                       /\ \A j \in 1..(i - 1) : IsWhitespace(CharAt(s, j)),
                Len(s))

\* the trailing \s* removed
TrimEnd(s) ==
    IF \A i \in 1..Len(s) : IsWhitespace(CharAt(s, i)) THEN ""
    ELSE SubSeq(s, 1, CHOOSE i \in 1..Len(s) :
                          /\ ~IsWhitespace(CharAt(s, i))
                          /\ \A j \in (i + 1)..Len(s) : IsWhitespace(CharAt(s, j)))

\* String.prototype.trim
Trim(s) == TrimEnd(TrimStart(s))

\* String.prototype.indexOf, 1-based; 0 when absent
IndexOf(s, sub) ==
    LET hits == {i \in 1..(Len(s) - Len(sub) + 1) : SubSeq(s, i, i + Len(sub) - 1) = sub}
    IN  IF hits = {} THEN 0 ELSE CHOOSE i \in hits : \A j \in hits : i <= j

\* String.prototype.split('\n')
RECURSIVE SplitLines(_)
SplitLines(s) ==
    LET nl == IndexOf(s, "\n")
    IN  IF nl = 0 THEN <<s>>
        ELSE <<SubSeq(s, 1, nl - 1)>> \o SplitLines(SubSeq(s, nl + 1, Len(s)))

UpperCaseLetters == "ABCDEFGHIJKLMNOPQRSTUVWXYZ"
LowerCaseLetters == "abcdefghijklmnopqrstuvwxyz"

\* String.prototype.toLowerCase
RECURSIVE ToLowerCase(_)
ToLowerCase(s) ==
    IF s = "" THEN ""
    ELSE LET c == CharAt(s, 1)
             k == IndexOf(UpperCaseLetters, c)
         IN  (IF k = 0 THEN c ELSE CharAt(LowerCaseLetters, k))
             \o ToLowerCase(SubSeq(s, 2, Len(s)))

\* parseInt(digits, 10) of a non-empty string of digits
RECURSIVE ParseInt(_)
ParseInt(digits) ==
    IF digits = "" THEN 0
    ELSE ParseInt(SubSeq(digits, 1, Len(digits) - 1)) * 10
         + (IndexOf("0123456789", CharAt(digits, Len(digits))) - 1)

\* the last index of the run of whitespace starting at from (from - 1 when empty)
WhitespaceRunEnd(text, from) ==
    LET stops == {j \in from..Len(text) : ~IsWhitespace(CharAt(text, j))}
    IN  IF stops = {} THEN Len(text) ELSE (CHOOSE j \in stops : \A k \in stops : j <= k) - 1

\* the last index of the run of digits starting at from (from - 1 when empty)
DigitRunEnd(text, from) ==
    LET stops == {j \in from..Len(text) : ~IsDigit(CharAt(text, j))}
    IN  IF stops = {} THEN Len(text) ELSE (CHOOSE j \in stops : \A k \in stops : j <= k) - 1

\* trimmed.match(/Line\s+(\d+):/): the capture of the leftmost match, "" when
\* there is none
MatchLine(text) ==
    LET digitsFrom(i) == WhitespaceRunEnd(text, i + 4) + 1
        matches == {i \in 1..(Len(text) - 3) :
                      /\ SubSeq(text, i, i + 3) = "Line"
                      /\ digitsFrom(i) > i + 4
                      /\ DigitRunEnd(text, digitsFrom(i)) >= digitsFrom(i)
                      /\ DigitRunEnd(text, digitsFrom(i)) < Len(text)
                      /\ CharAt(text, DigitRunEnd(text, digitsFrom(i)) + 1) = ":"}
    IN  IF matches = {} THEN ""
        ELSE LET first == CHOOSE i \in matches : \A j \in matches : i <= j
             IN  SubSeq(text, digitsFrom(first), DigitRunEnd(text, digitsFrom(first)))

\* trimmed.match(/File:\s*(.+)/): the capture of the leftmost match, "" when
\* there is none (the text is trimmed, so it has no trailing whitespace)
MatchFile(text) ==
    LET at == IndexOf(text, "File:")
    IN  IF at = 0 THEN "" ELSE TrimStart(SubSeq(text, at + 5, Len(text)))

(***************************************************************************)
(* JSON.parse, on the documents the backends are taken to answer with.     *)
(***************************************************************************)
\* no findings, complete summary
DocNoIssuesText ==
    "{\"feedback\":[],\"summary\":{\"totalIssues\":0,\"criticalIssues\":0,\"warnings\":0,\"improvements\":0,\"categories\":{},\"recommendations\":[]}}"
DocNoIssues ==
    JObj([feedback |-> JArr(<<>>), summary |-> JObj([totalIssues |-> JNum(0), criticalIssues |-> JNum(0), warnings |-> JNum(0), improvements |-> JNum(0), categories |-> JObj(NoFields), recommendations |-> JArr(<<>>)])])

\* one critical finding; a PR analysis with risk level low
DocCriticalText ==
    "{\"feedback\":[{\"line\":5,\"message\":\"SOQL injection\",\"severity\":\"critical\",\"category\":\"security\",\"file\":\"Other.cls\"}],\"summary\":{\"totalIssues\":1,\"criticalIssues\":1,\"warnings\":0,\"improvements\":0,\"categories\":{\"security\":1},\"recommendations\":[]},\"prAnalysis\":{\"totalFilesChanged\":1,\"linesAdded\":20,\"linesDeleted\":0,\"primaryChanges\":[],\"riskLevel\":\"low\"}}"
DocCritical ==
    JObj([feedback |-> JArr(<<JObj([line |-> JNum(5), message |-> JStr("SOQL injection"), severity |-> JStr("critical"), category |-> JStr("security"), file |-> JStr("Other.cls")])>>), summary |-> JObj([totalIssues |-> JNum(1), criticalIssues |-> JNum(1), warnings |-> JNum(0), improvements |-> JNum(0), categories |-> JObj([security |-> JNum(1)]), recommendations |-> JArr(<<>>)]), prAnalysis |-> JObj([totalFilesChanged |-> JNum(1), linesAdded |-> JNum(20), linesDeleted |-> JNum(0), primaryChanges |-> JArr(<<>>), riskLevel |-> JStr("low")])])

\* one critical finding at line 5; no PR analysis
DocCriticalPlainText ==
    "{\"feedback\":[{\"line\":5,\"message\":\"SOQL injection\",\"severity\":\"critical\",\"category\":\"security\",\"file\":\"Foo.cls\"}],\"summary\":{\"totalIssues\":1,\"criticalIssues\":1,\"warnings\":0,\"improvements\":0,\"categories\":{\"security\":1},\"recommendations\":[]}}"
DocCriticalPlain ==
    JObj([feedback |-> JArr(<<JObj([line |-> JNum(5), message |-> JStr("SOQL injection"), severity |-> JStr("critical"), category |-> JStr("security"), file |-> JStr("Foo.cls")])>>), summary |-> JObj([totalIssues |-> JNum(1), criticalIssues |-> JNum(1), warnings |-> JNum(0), improvements |-> JNum(0), categories |-> JObj([security |-> JNum(1)]), recommendations |-> JArr(<<>>)])])

\* one warning finding; a PR analysis without a risk level, with an overview
\* and a recommendation of its own
DocWarningText ==
    "{\"feedback\":[{\"line\":9,\"message\":\"Query in loop\",\"severity\":\"warning\",\"category\":\"performance\",\"file\":\"x\"}],\"summary\":{\"totalIssues\":1,\"criticalIssues\":0,\"warnings\":1,\"improvements\":0,\"categories\":{\"performance\":1},\"recommendations\":[]},\"prAnalysis\":{\"totalFilesChanged\":1,\"linesAdded\":1,\"linesDeleted\":1,\"overview\":\"Adds a query\",\"recommendationSummary\":\"Merge after a second look\",\"primaryChanges\":[\"queries\"]}}"
DocWarning ==
    JObj([feedback |-> JArr(<<JObj([line |-> JNum(9), message |-> JStr("Query in loop"), severity |-> JStr("warning"), category |-> JStr("performance"), file |-> JStr("x")])>>), summary |-> JObj([totalIssues |-> JNum(1), criticalIssues |-> JNum(0), warnings |-> JNum(1), improvements |-> JNum(0), categories |-> JObj([performance |-> JNum(1)]), recommendations |-> JArr(<<>>)]), prAnalysis |-> JObj([totalFilesChanged |-> JNum(1), linesAdded |-> JNum(1), linesDeleted |-> JNum(1), overview |-> JStr("Adds a query"), recommendationSummary |-> JStr("Merge after a second look"), primaryChanges |-> JArr(<<JStr("queries")>>)])])

\* no findings; a PR analysis with risk level high
DocHighRiskText ==
    "{\"feedback\":[],\"summary\":{\"totalIssues\":0,\"criticalIssues\":0,\"warnings\":0,\"improvements\":0,\"categories\":{},\"recommendations\":[]},\"prAnalysis\":{\"totalFilesChanged\":1,\"linesAdded\":0,\"linesDeleted\":0,\"primaryChanges\":[],\"riskLevel\":\"high\"}}"
DocHighRisk ==
    JObj([feedback |-> JArr(<<>>), summary |-> JObj([totalIssues |-> JNum(0), criticalIssues |-> JNum(0), warnings |-> JNum(0), improvements |-> JNum(0), categories |-> JObj(NoFields), recommendations |-> JArr(<<>>)]), prAnalysis |-> JObj([totalFilesChanged |-> JNum(1), linesAdded |-> JNum(0), linesDeleted |-> JNum(0), primaryChanges |-> JArr(<<>>), riskLevel |-> JStr("high")])])

\* passes isValidLLMResponse with a summary that has a total only, and not the findings' total
DocBadCountsText ==
    "{\"feedback\":[],\"summary\":{\"totalIssues\":5}}"
DocBadCounts ==
    JObj([feedback |-> JArr(<<>>), summary |-> JObj([totalIssues |-> JNum(5)])])

\* passes isValidLLMResponse with a finding of no line, message, category or file and an unknown severity
DocBadFindingText ==
    "{\"feedback\":[{\"severity\":\"blocker\"}],\"summary\":{\"totalIssues\":1}}"
DocBadFinding ==
    JObj([feedback |-> JArr(<<JObj([severity |-> JStr("blocker")])>>), summary |-> JObj([totalIssues |-> JNum(1)])])

\* fails isValidLLMResponse: no summary
DocNoSummaryText ==
    "{\"feedback\":[]}"
DocNoSummary ==
    JObj([feedback |-> JArr(<<>>)])

\* fails isValidLLMResponse: null
DocNullText ==
    "null"
DocNull ==
    JNull

\* no findings; a PR analysis whose primaryChanges is a text, not a list
DocStringChangesText ==
    "{\"feedback\":[],\"summary\":{\"totalIssues\":0},\"prAnalysis\":{\"primaryChanges\":\"refactoring\"}}"
DocStringChanges ==
    JObj([feedback |-> JArr(<<>>), summary |-> JObj([totalIssues |-> JNum(0)]), prAnalysis |-> JObj([primaryChanges |-> JStr("refactoring")])])

JsonDocuments == <<
    [text |-> DocNoIssuesText, value |-> DocNoIssues],
    [text |-> DocStringChangesText, value |-> DocStringChanges],
    [text |-> DocCriticalText, value |-> DocCritical],
    [text |-> DocCriticalPlainText, value |-> DocCriticalPlain],
    [text |-> DocWarningText, value |-> DocWarning],
    [text |-> DocHighRiskText, value |-> DocHighRisk],
    [text |-> DocBadCountsText, value |-> DocBadCounts],
    [text |-> DocBadFindingText, value |-> DocBadFinding],
    [text |-> DocNoSummaryText, value |-> DocNoSummary],
    [text |-> DocNullText, value |-> DocNull] >>

\* JSON.parse(text): the decoded value, NotJson for any other text (SyntaxError)
JsonParse(text) ==
    LET hits == {i \in 1..Len(JsonDocuments) : JsonDocuments[i].text = Trim(text)}
    IN  IF hits = {} THEN NotJson ELSE JsonDocuments[CHOOSE i \in hits : TRUE].value

(***************************************************************************)
(* BaseLLMProvider: the response normalizer                                 *)
(***************************************************************************)
\* The Markdown fence marker, three backquotes in the source; written with
\* apostrophes here because a TLA+ string cannot hold a backquote.
Fence == "'''"

\* trimmed.length > 20
MinFindingLength == 20

isValidLLMResponse(obj) ==
    /\ Truthy(obj)
    /\ TypeOf(obj) = "object"
    /\ Get(obj, "feedback").t = "array"
    /\ Truthy(Get(obj, "summary"))
    /\ TypeOf(Get(obj, "summary")) = "object"
    /\ TypeOf(Get(Get(obj, "summary"), "totalIssues")) = "number"

inferSeverity(message) ==
    LET lowerMessage == ToLowerCase(message)
    IN  IF \/ Includes(lowerMessage, "security")
           \/ Includes(lowerMessage, "vulnerability")
           \/ Includes(lowerMessage, "injection")
           \/ Includes(lowerMessage, "error")
        THEN "critical"
        ELSE IF \/ Includes(lowerMessage, "warning")
                \/ Includes(lowerMessage, "issue")
                \/ Includes(lowerMessage, "problem")
        THEN "warning"
        ELSE "improvement"

inferCategory(message) ==
    LET lowerMessage == ToLowerCase(message)
    IN  IF \/ Includes(lowerMessage, "security")
           \/ Includes(lowerMessage, "injection")
           \/ Includes(lowerMessage, "vulnerability")
        THEN "security"
        ELSE IF \/ Includes(lowerMessage, "performance")
                \/ Includes(lowerMessage, "slow")
                \/ Includes(lowerMessage, "optimize")
        THEN "performance"
        ELSE IF \/ Includes(lowerMessage, "maintain")
                \/ Includes(lowerMessage, "complex")
                \/ Includes(lowerMessage, "refactor")
        THEN "maintainability"
        ELSE IF \/ Includes(lowerMessage, "best practice")
                \/ Includes(lowerMessage, "convention")
                \/ Includes(lowerMessage, "standard")
        THEN "best-practice"
        ELSE "bug"

\* the number of elements of an array of findings whose field has the value
CountField(feedback, field, value) ==
    Cardinality({i \in 1..Len(feedback) : Get(feedback[i], field) = JStr(value)})

\* categorizeIssues: category -> count, for the categories that occur
categorizeIssues(feedback) ==
    LET present == {Get(feedback[i], "category").s : i \in 1..Len(feedback)}
    IN  [c \in present |-> JNum(CountField(feedback, "category", c))]

\* the loop of createFallbackResponse over the lines, from the given current
\* file and current line: the findings pushed
RECURSIVE ScanLines(_, _, _)
ScanLines(lines, currentFile, currentLine) ==
    IF lines = <<>> THEN <<>>
    ELSE LET trimmed == Trim(Head(lines))
             lineMatch == IF Includes(trimmed, "Line") /\ Includes(trimmed, ":")
                          THEN MatchLine(trimmed) ELSE ""
             nextLine == IF lineMatch # "" THEN ParseInt(lineMatch) ELSE currentLine
             fileMatch == IF Includes(trimmed, "File:") THEN MatchFile(trimmed) ELSE ""
             nextFile == IF fileMatch # "" THEN Trim(fileMatch) ELSE currentFile
             pushed == IF Len(trimmed) > MinFindingLength /\ nextFile # "" /\ nextLine > 0
                       THEN << JObj([line |-> JNum(nextLine),
                                     message |-> JStr(trimmed),
                                     severity |-> JStr(inferSeverity(trimmed)),
                                     category |-> JStr(inferCategory(trimmed)),
                                     file |-> JStr(nextFile)]) >>
                       ELSE <<>>
         IN  pushed \o ScanLines(Tail(lines), nextFile, nextLine)

createFallbackResponse(rawResponse) ==
    LET feedback == ScanLines(SplitLines(rawResponse), "", 0)
    IN  JObj([feedback |-> JArr(feedback),
              summary |-> JObj([totalIssues |-> JNum(Len(feedback)),
                                criticalIssues |-> JNum(CountField(feedback, "severity", "critical")),
                                warnings |-> JNum(CountField(feedback, "severity", "warning")),
                                improvements |-> JNum(CountField(feedback, "severity", "improvement")),
                                categories |-> JObj(categorizeIssues(feedback)),
                                recommendations |-> JArr(<<>>)])])

\* replace(/\s*```$/, '')
StripClosingFence(text) ==
    IF EndsWith(text, Fence) THEN TrimEnd(SubSeq(text, 1, Len(text) - Len(Fence))) ELSE text

\* the text handed to JSON.parse
CleanResponse(response) ==
    LET trimmed == Trim(response)
    IN  IF StartsWith(trimmed, Fence \o "json")
        THEN StripClosingFence(TrimStart(SubSeq(trimmed, Len(Fence) + 5, Len(trimmed))))
        ELSE IF StartsWith(trimmed, Fence)
        THEN StripClosingFence(TrimStart(SubSeq(trimmed, Len(Fence) + 1, Len(trimmed))))
        ELSE trimmed

\* returns the decoded document itself when it decodes and passes the guard
parseReviewResponse(response) ==
    LET decoded == JsonParse(CleanResponse(response))
    IN  IF decoded # NotJson /\ isValidLLMResponse(decoded)
        THEN decoded
        ELSE createFallbackResponse(response)

(***************************************************************************)
(* Provider adapters (AnthropicProvider, OpenAIProvider)                    *)
(***************************************************************************)
\* config.llm.primary.name and config.llm.fallback.name of the modelled deployment
PrimaryProvider == "anthropic"
FallbackProvider == "openai"

\* config.review.timeoutMs
TimeoutMs == 300000

ProviderLabel(name) == IF name = "anthropic" THEN "Anthropic" ELSE "OpenAI"

\* a free-text answer the heuristic extractor finds one critical finding in
HeuristicText == "File: Foo.cls\nLine 5: SOQL injection vulnerability here"

\* the raw texts a backend is taken to answer with
BackendTexts ==
    { Fence \o "json\n" \o DocNoIssuesText \o "\n" \o Fence,
      DocCriticalText,
      DocCriticalPlainText,
      DocWarningText,
      DocHighRiskText,
      DocStringChangesText,
      HeuristicText,
      "" }

\* this.parseReviewResponse(text) for each of these texts
ParsedResponse == [text \in BackendTexts |-> parseReviewResponse(text)]

\* what a backend answers after its timer has fired: nothing, or a text
LateTexts == {"", DocCriticalPlainText}

\* how the race of the backend call against the timer can end: the backend
\* answers with a text, answers with no content ("empty") or with a content
\* block that is no text ("badtype", the Anthropic API only), rejects, or the
\* timer fires first ("timeout", with the text the backend answers afterwards)
BackendOutcomes(name) ==
    {[kind |-> "text", text |-> t] : t \in BackendTexts} \cup
    {[kind |-> k, text |-> ""] :
        k \in {"reject", "empty"} \cup
              (IF name = "anthropic" THEN {"badtype"} ELSE {})} \cup
    {[kind |-> "timeout", text |-> t] : t \in LateTexts}

\* mutant of AdapterFails: an answer that arrives after the timer is still used
AdapterFailsUnlessAnswered(name, out) ==
    \/ out.kind \notin {"text", "timeout"}
    \/ out.text = ""

\* whether the adapter's generateReview throws on this outcome
AdapterFails(name, out) ==
    \/ out.kind # "text"
    \/ name = "openai" /\ out.text = ""

\* `${error}` of the error the adapter's generateReview throws
AdapterError(name, out) ==
    "Error: " \o ProviderLabel(name) \o " review generation failed: " \o
    (CASE out.kind = "timeout" ->
              "Error: LLM request timeout after " \o ToString(TimeoutMs) \o "ms"
       [] out.kind = "reject" -> "Error: backend request failed"
       [] out.kind = "badtype" -> "Error: Invalid response type from " \o ProviderLabel(name)
       [] OTHER -> "Error: Empty response from " \o ProviderLabel(name))

(***************************************************************************)
(* LLMManager.generateReview                                                *)
(***************************************************************************)
\* this.primaryProvider.generateReview(prompt, code, context)
PrimaryCall(prompt, code, context) ==
    [provider |-> "primary", event |-> "start", name |-> PrimaryProvider,
     prompt |-> prompt, code |-> code, context |-> context]

\* mutant of FallbackCall: the fallback is given no code
FallbackCallWithoutCode(prompt, code, context) ==
    [provider |-> "fallback", event |-> "start", name |-> FallbackProvider,
     prompt |-> prompt, code |-> "", context |-> context]

\* this.fallbackProvider.generateReview(prompt, code, context)
FallbackCall(prompt, code, context) ==
    [provider |-> "fallback", event |-> "start", name |-> FallbackProvider,
     prompt |-> prompt, code |-> code, context |-> context]

\* how an adapter call ended, as the manager sees it
Settled(provider, name, out) ==
    [provider |-> provider,
     event |-> IF AdapterFails(name, out) THEN "fail" ELSE "ok",
     error |-> IF AdapterFails(name, out) THEN AdapterError(name, out) ELSE "",
     kind |-> out.kind,
     text |-> out.text]

\* mutant of EntersCatch: the catch block also runs after a success
EntersCatchAlways(name, out) == TRUE

\* whether the try around an adapter call ends in its catch block
EntersCatch(name, out) == AdapterFails(name, out)

\* mutant of CombinedError: only the fallback's failure is reported
CombinedErrorFallbackOnly(primaryErr, fallbackErr) ==
    "Error: All LLM providers failed. Fallback: " \o fallbackErr

\* `${error}` of the error thrown when both providers failed
CombinedError(primaryErr, fallbackErr) ==
    "Error: All LLM providers failed. Primary: " \o primaryErr
    \o ", Fallback: " \o fallbackErr

(***************************************************************************)
(* ReviewService                                                            *)
(***************************************************************************)
\* bound: the longest list of changed files tried
MaxChangedFiles == 2

FileChange(filename, status, additions, deletions, patch) ==
    [filename |-> filename, status |-> status, additions |-> additions,
     deletions |-> deletions, changes |-> additions + deletions, patch |-> patch]

\* the changed files a pull request is made of; patch "" is an absent patch
FooCls == FileChange("force-app/main/default/classes/Foo.cls", "added", 20, 0, "@@ -0,0 +1,20 @@")
BarTrigger == FileChange("force-app/main/default/triggers/Bar.trigger", "modified", 90, 30, "")
OldCls == FileChange("force-app/main/default/classes/Old.cls", "removed", 0, 40, "")
ReadmeMd == FileChange("README.md", "modified", 3, 1, "@@ -1,2 +1,4 @@")
CompJs == FileChange("force-app/main/default/lwc/c/c.js", "modified", 3, 1, "@@ -4,2 +4,4 @@")

FileChanges == {FooCls, BarTrigger, OldCls, ReadmeMd, CompJs}

\* the lists of at most n distinct changed files
RECURSIVE FileListsUpTo(_)
FileListsUpTo(n) ==
    IF n = 0 THEN {<<>>}
    ELSE FileListsUpTo(n - 1) \cup
         {Append(l, f) : l \in {k \in FileListsUpTo(n - 1) : Len(k) = n - 1},
                         f \in FileChanges}

PullRequests ==
    {l \in FileListsUpTo(MaxChangedFiles) :
        \A i, j \in 1..Len(l) : i # j => l[i] # l[j]}

\* the ReviewRequest values tried
Requests ==
    {[repositoryName |-> n, headSha |-> "abc123"] : n \in {"acme/sf-demo", "sf-demo", "acme/sf/demo"}}

\* repositoryName.split('/')
RECURSIVE SplitSlash(_)
SplitSlash(s) ==
    LET at == IndexOf(s, "/")
    IN  IF at = 0 THEN <<s>>
        ELSE <<SubSeq(s, 1, at - 1)>> \o SplitSlash(SubSeq(s, at + 1, Len(s)))

\* the full text getFileContent returns for a changed file with no patch
FullFileText == "trigger Bar on Account (before insert) { }"

\* GitHubClient.getFileContent of a changed file: throws, '' (too large), or the text
ReviewContentOutcomes ==
    {[kind |-> "throw", text |-> ""], [kind |-> "ok", text |-> ""],
     [kind |-> "ok", text |-> FullFileText]}

\* SalesforcePrompts.getPromptForFileType
getPromptForFileType(fileType) ==
    CASE fileType = NoFileType -> "base"
      [] fileType.type \in {"apex-class", "apex-trigger", "lwc", "aura", "flow",
                            "object", "permission"} -> fileType.type
      [] OTHER -> "base"

\* createPRReviewPrompt: the base prompt chosen and the values of its last lines
createPRReviewPrompt(fileType, file) ==
    [basePrompt |-> getPromptForFileType(fileType), file |-> file.filename,
     additions |-> file.additions, deletions |-> file.deletions, changes |-> file.changes]

\* new Map(): the context given to every review
EmptyContextMap == <<>>

\* mutant of WithFile: a file value of the backend is kept
WithFileKeepsBackend(feedback, filename) ==
    LET fields == IF feedback.t = "object" THEN feedback.o ELSE NoFields
    IN  JObj([k \in DOMAIN fields \cup {"file"} |->
                IF k \in DOMAIN fields THEN fields[k] ELSE JStr(filename)])

\* { ...feedback, file: file.filename }
WithFile(feedback, filename) ==
    LET fields == IF feedback.t = "object" THEN feedback.o ELSE NoFields
    IN  JObj([k \in DOMAIN fields \cup {"file"} |->
                IF k = "file" THEN JStr(filename) ELSE fields[k]])

\* review.feedback.map((feedback) => ({ ...feedback, file: file.filename }))
MapFeedback(review, filename) ==
    LET feedback == Get(review, "feedback").a
    IN  [i \in 1..Len(feedback) |-> WithFile(feedback[i], filename)]

getSeverityEmoji(severity) ==
    CASE severity = JStr("critical") -> "red"
      [] severity = JStr("warning") -> "yellow"
      [] severity = JStr("improvement") -> "blue"
      [] OTHER -> "memo"

getCategoryTag(category) ==
    CASE category = JStr("security") -> "Security Issue"
      [] category = JStr("performance") -> "Performance"
      [] category = JStr("maintainability") -> "Maintainability"
      [] category = JStr("best-practice") -> "Best Practice"
      [] category = JStr("bug") -> "Potential Bug"
      [] OTHER -> "Code Quality"

\* feedback.suggestion.trim() throws a TypeError: a truthy suggestion that is no string
SuggestionThrows(feedback) ==
    /\ Truthy(Get(feedback, "suggestion"))
    /\ Get(feedback, "suggestion").t # "string"

\* mutant of InlineComment: the comment is put on the first line of the file
InlineCommentOnFirstLine(feedback) ==
    [path |-> Get(feedback, "file"),
     line |-> JNum(1),
     emoji |-> getSeverityEmoji(Get(feedback, "severity")),
     tag |-> getCategoryTag(Get(feedback, "category")),
     message |-> Get(feedback, "message"),
     suggestion |-> IF /\ Truthy(Get(feedback, "suggestion"))
                       /\ Len(Trim(Get(feedback, "suggestion").s)) > 0
                    THEN Get(feedback, "suggestion") ELSE JUndefined]

\* one inline comment of the combined review
InlineComment(feedback) ==
    [path |-> Get(feedback, "file"),
     line |-> Get(feedback, "line"),
     emoji |-> getSeverityEmoji(Get(feedback, "severity")),
     tag |-> getCategoryTag(Get(feedback, "category")),
     message |-> Get(feedback, "message"),
     suggestion |-> IF /\ Truthy(Get(feedback, "suggestion"))
                       /\ Len(Trim(Get(feedback, "suggestion").s)) > 0
                    THEN Get(feedback, "suggestion") ELSE JUndefined]

\* one comment of postInlineComments: no suggestion is rendered
FallbackComment(feedback) ==
    [path |-> Get(feedback, "file"),
     line |-> Get(feedback, "line"),
     emoji |-> getSeverityEmoji(Get(feedback, "severity")),
     tag |-> getCategoryTag(Get(feedback, "category")),
     message |-> Get(feedback, "message"),
     suggestion |-> JUndefined]

\* allFeedback.some((f) => f.severity === 'critical')
HasCritical(feedback) ==
    \E i \in 1..Len(feedback) : Get(feedback[i], "severity") = JStr("critical")

\* mutant of ReviewEvent: a review without findings is a comment
ReviewEventNeverApproves(feedback) ==
    IF HasCritical(feedback) THEN "REQUEST_CHANGES" ELSE "COMMENT"

\* mutant of ReviewEvent: the length is tested before the critical findings
ReviewEventLengthFirst(feedback) ==
    IF Len(feedback) > 0 THEN "COMMENT"
    ELSE IF HasCritical(feedback) THEN "REQUEST_CHANGES"
    ELSE "APPROVE"

\* the event of the combined review
ReviewEvent(feedback) ==
    IF HasCritical(feedback) THEN "REQUEST_CHANGES"
    ELSE IF Len(feedback) > 0 THEN "COMMENT"
    ELSE "APPROVE"


\* Object property key of a value used as one
KeyOf(v) ==
    CASE v.t = "string" -> v.s
      [] v.t = "number" -> ToString(v.n)
      [] v.t = "array" -> "[array]"
      [] v.t = "object" -> "[object Object]"
      [] OTHER -> v.t

\* changedFiles.reduce((sum, file) => sum + file.additions, 0)
RECURSIVE SumAdditions(_)
SumAdditions(files) ==
    IF files = <<>> THEN 0 ELSE files[1].additions + SumAdditions(Tail(files))

\* changedFiles.reduce((sum, file) => sum + file.deletions, 0)
RECURSIVE SumDeletions(_)
SumDeletions(files) ==
    IF files = <<>> THEN 0 ELSE files[1].deletions + SumDeletions(Tail(files))

\* reviewResults.find(r => r.prAnalysis)?.prAnalysis
FindPRAnalysis(results) ==
    LET hits == {i \in 1..Len(results) : Truthy(Get(results[i], "prAnalysis"))}
    IN  IF hits = {} THEN JUndefined
        ELSE Get(results[CHOOSE i \in hits : \A j \in hits : i <= j], "prAnalysis")

extractPRAnalysis(results, files) ==
    LET combinedAnalysis == FindPRAnalysis(results)
        stats == [totalFilesChanged |-> JNum(Len(files)),
                  linesAdded |-> JNum(SumAdditions(files)),
                  linesDeleted |-> JNum(SumDeletions(files))]
        spread == IF combinedAnalysis.t = "object" THEN combinedAnalysis.o ELSE NoFields
    IN  IF Truthy(combinedAnalysis)
        THEN JObj([k \in DOMAIN spread \cup DOMAIN stats |->
                     IF k \in DOMAIN stats THEN stats[k] ELSE spread[k]])
        ELSE JObj([totalFilesChanged |-> stats.totalFilesChanged,
                   linesAdded |-> stats.linesAdded,
                   linesDeleted |-> stats.linesDeleted,
                   primaryChanges |-> JArr(<<>>)])

generateOverview(prAnalysis, filesCount) ==
    IF Truthy(Get(prAnalysis, "overview")) THEN Get(prAnalysis, "overview")
    ELSE JStr("This pull request modifies " \o ToString(filesCount) \o " Salesforce "
              \o (IF filesCount = 1 THEN "file" ELSE "files")
              \o " with various improvements and updates.")

\* mutant of RiskText: the critical count is left out of the derivation
RiskTextIgnoresCritical(prAnalysis, totalIssues, criticalIssues) ==
    LET given == Get(prAnalysis, "riskLevel")
        riskLevel ==
            IF Truthy(given) THEN given
            ELSE IF totalIssues > 10 THEN JStr("high")
            ELSE IF \/ totalIssues > 3
                    \/ Get(prAnalysis, "linesAdded").n + Get(prAnalysis, "linesDeleted").n > 100
                 THEN JStr("medium")
            ELSE JStr("low")
    IN  IF riskLevel = JStr("high") THEN "high"
        ELSE IF riskLevel = JStr("medium") THEN "medium" ELSE "low"

\* the risk level generateImpactAssessment renders
RiskText(prAnalysis, totalIssues, criticalIssues) ==
    LET given == Get(prAnalysis, "riskLevel")
        riskLevel ==
            IF Truthy(given) THEN given
            ELSE IF criticalIssues > 0 \/ totalIssues > 10 THEN JStr("high")
            ELSE IF \/ totalIssues > 3
                    \/ Get(prAnalysis, "linesAdded").n + Get(prAnalysis, "linesDeleted").n > 100
                 THEN JStr("medium")
            ELSE JStr("low")
    IN  IF riskLevel = JStr("high") THEN "high"
        ELSE IF riskLevel = JStr("medium") THEN "medium" ELSE "low"

\* prAnalysis.primaryChanges.join is no function: a non-empty string
ImpactAreasThrow(prAnalysis) ==
    LET primaryChanges == Get(prAnalysis, "primaryChanges")
    IN  primaryChanges.t = "string" /\ primaryChanges.s # ""

\* the areas generateImpactAssessment names after "affecting"
ImpactAreas(prAnalysis) ==
    LET primaryChanges == Get(prAnalysis, "primaryChanges")
    IN  IF primaryChanges.t = "array" THEN primaryChanges.a ELSE <<>>

\* mutant of generateRecommendation: critical findings do not ask for changes
generateRecommendationNeverBlocks(totalIssues, criticalIssues, prAnalysis) ==
    IF Truthy(Get(prAnalysis, "recommendationSummary"))
    THEN Get(prAnalysis, "recommendationSummary")
    ELSE IF totalIssues = 0
    THEN JStr("**APPROVE** - No issues found. The code looks good to merge.")
    ELSE JStr("**COMMENT** - Consider addressing " \o ToString(totalIssues) \o " "
              \o (IF totalIssues = 1 THEN "suggestion" ELSE "suggestions")
              \o " to improve code quality, but no blocking issues found.")

generateRecommendation(totalIssues, criticalIssues, prAnalysis) ==
    IF Truthy(Get(prAnalysis, "recommendationSummary"))
    THEN Get(prAnalysis, "recommendationSummary")
    ELSE IF totalIssues = 0
    THEN JStr("**APPROVE** - No issues found. The code looks good to merge.")
    ELSE IF criticalIssues > 0
    THEN JStr("**REQUEST_CHANGES** - Address " \o ToString(criticalIssues) \o " critical "
              \o (IF criticalIssues = 1 THEN "issue" ELSE "issues")
              \o " before merge. Other improvements will enhance code quality.")
    ELSE JStr("**COMMENT** - Consider addressing " \o ToString(totalIssues) \o " "
              \o (IF totalIssues = 1 THEN "suggestion" ELSE "suggestions")
              \o " to improve code quality, but no blocking issues found.")

\* whether generateSummary throws
SummaryThrows(results, files) == ImpactAreasThrow(extractPRAnalysis(results, files))

\* generateSummary: the values the rendered text is made of
generateSummary(results, feedback, files) ==
    LET totalIssues == Len(feedback)
        criticalIssues == CountField(feedback, "severity", "critical")
        prAnalysis == extractPRAnalysis(results, files)
        keys == {KeyOf(Get(feedback[i], "category")) : i \in 1..Len(feedback)}
    IN  [overview |-> generateOverview(prAnalysis, Len(results)),
         riskLevel |-> RiskText(prAnalysis, totalIssues, criticalIssues),
         impactAreas |-> ImpactAreas(prAnalysis),
         filesReviewed |-> Len(results),
         linesAdded |-> Get(prAnalysis, "linesAdded").n,
         linesDeleted |-> Get(prAnalysis, "linesDeleted").n,
         totalIssues |-> totalIssues,
         criticalIssues |-> criticalIssues,
         warnings |-> CountField(feedback, "severity", "warning"),
         improvements |-> CountField(feedback, "severity", "improvement"),
         categories |-> [c \in keys |->
                           Cardinality({i \in 1..Len(feedback) :
                                          KeyOf(Get(feedback[i], "category")) = c})],
         recommendation |-> generateRecommendation(totalIssues, criticalIssues, prAnalysis)]

\* mutant of NextAfterCatch: a failed file ends the loop
NextAfterCatchAborts(idx) == Len(salesforceFiles) + 1

\* the loop index after the catch block of a file's try
NextAfterCatch(idx) == idx + 1

\* mutant of IsReviewable: removed files are kept
IsReviewableKeepsRemoved(file) == isSalesforceFile(file.filename)

\* file.status !== 'removed' && SalesforceFileDetector.isSalesforceFile(file.filename)
IsReviewable(file) == file.status # "removed" /\ isSalesforceFile(file.filename)

\* the local state of one LLMManager.generateReview call before it starts
NoCall ==
    /\ callStatus' = "none"
    /\ providerLog' = <<>>
    /\ primaryError' = ""
    /\ fallbackError' = ""
    /\ callError' = ""

\* reviewPullRequest up to its first await
ReviewPullRequest ==
    /\ pc = "idle"
    /\ \E req \in Requests, files \in PullRequests :
         /\ request' = req
         /\ prFiles' = files
         /\ IF Len(SplitSlash(req.repositoryName)) # 2
            THEN /\ pc' = "escaped"
                 /\ runError' = "Error: Invalid repository name format: " \o req.repositoryName
            ELSE /\ pc' = "listing"
                 /\ runError' = ""
    /\ UNCHANGED <<salesforceFiles, fileIdx, reviewResults, allFeedback, callStatus,
                   providerLog, primaryError, fallbackError, callError, fileLog,
                   inlineIdx, posts>>
    /\ UNCHANGED <<fileFetches, summaryListing>>
    /\ UNCHANGED <<resolverVars, parseVars, callVars, sharedVars>>

\* getPullRequestFiles settles; the files are filtered
ListFiles ==
    /\ pc = "listing"
    /\ \E ok \in BOOLEAN :
         IF ok
         THEN /\ salesforceFiles' = SelectSeq(prFiles, IsReviewable)
              /\ pc' = IF Len(salesforceFiles') = 0 THEN "done" ELSE "loop"
              /\ runError' = ""
         ELSE /\ salesforceFiles' = <<>>
              /\ pc' = "errorComment"
              /\ runError' = "Error: Failed to fetch PR files: Error: request failed"
    /\ fileIdx' = 1
    /\ reviewResults' = <<>>
    /\ allFeedback' = <<>>
    /\ UNCHANGED <<request, prFiles, callStatus, providerLog, primaryError, fallbackError,
                   callError, fileLog, inlineIdx, posts>>
    /\ UNCHANGED <<fileFetches, summaryListing>>
    /\ UNCHANGED <<resolverVars, parseVars, callVars, sharedVars>>

\* the file's try block ended in its catch
FileFailed(file) ==
    /\ fileLog' = Append(fileLog, [file |-> file.filename, outcome |-> "failed", text |-> ""])
    /\ fileIdx' = NextAfterCatch(fileIdx)
    /\ pc' = "loop"
    /\ UNCHANGED <<reviewResults, allFeedback>>

\* the rest of the file's try block, from the review that generateReview returned
StoreReview(file, text, review) ==
    LET mapped == MapFeedback(review, file.filename)
        stored == JObj([k \in DOMAIN review.o |->
                          IF k = "feedback" THEN JArr(mapped) ELSE review.o[k]])
    IN  /\ reviewResults' = Append(reviewResults, stored)
        /\ allFeedback' = allFeedback \o mapped
        /\ fileLog' = Append(fileLog, [file |-> file.filename, outcome |-> "reviewed",
                                       text |-> text])
        /\ fileIdx' = fileIdx + 1
        /\ pc' = "loop"

\* generateReview returned the review parsed from text
FileReviewed(file, text) == StoreReview(file, text, ParsedResponse[text])

\* mutant of NeedsFullFile: the full file is fetched for every file
NeedsFullFileAlways(file) == TRUE

\* !patchContent
NeedsFullFile(file) == file.patch = ""

\* one iteration of the loop up to the await of the primary provider
BeginFile ==
    /\ pc = "loop"
    /\ fileIdx <= Len(salesforceFiles)
    /\ LET file == salesforceFiles[fileIdx]
           prompt == createPRReviewPrompt(getFileType(file.filename), file)
       IN  IF ~NeedsFullFile(file)
           THEN /\ providerLog' = <<PrimaryCall(prompt, file.patch, EmptyContextMap)>>
                /\ callStatus' = "running"
                /\ primaryError' = "" /\ fallbackError' = "" /\ callError' = ""
                /\ pc' = "primary"
                /\ UNCHANGED <<fileLog, fileFetches, fileIdx, reviewResults, allFeedback>>
           ELSE \E out \in ReviewContentOutcomes :
                  /\ fileFetches' = Append(fileFetches, [file |-> file.filename,
                                                         kind |-> out.kind, text |-> out.text])
                  /\ CASE out.kind = "throw" -> FileFailed(file) /\ NoCall
                       [] out.kind = "ok" /\ out.text = "" ->
                            /\ fileLog' = Append(fileLog, [file |-> file.filename,
                                                           outcome |-> "skipped", text |-> ""])
                            /\ fileIdx' = fileIdx + 1
                            /\ pc' = "loop"
                            /\ NoCall
                            /\ UNCHANGED <<reviewResults, allFeedback>>
                       [] OTHER ->
                            /\ providerLog' = <<PrimaryCall(prompt, out.text, EmptyContextMap)>>
                            /\ callStatus' = "running"
                            /\ primaryError' = "" /\ fallbackError' = "" /\ callError' = ""
                            /\ pc' = "primary"
                            /\ UNCHANGED <<fileLog, fileIdx, reviewResults, allFeedback>>
    /\ UNCHANGED <<request, prFiles, salesforceFiles, inlineIdx, posts, runError>>
    /\ UNCHANGED summaryListing
    /\ UNCHANGED <<resolverVars, parseVars, callVars, sharedVars>>

\* the primary provider's generateReview settles
PrimarySettle ==
    /\ pc = "primary"
    /\ \E out \in BackendOutcomes(PrimaryProvider) :
         LET call == providerLog[1]
             log == Append(providerLog, Settled("primary", PrimaryProvider, out))
         IN  IF EntersCatch(PrimaryProvider, out)
             THEN /\ primaryError' = AdapterError(PrimaryProvider, out)
                  /\ providerLog' = Append(log, FallbackCall(call.prompt, call.code,
                                                             call.context))
                  /\ pc' = "fallback"
                  /\ UNCHANGED <<callStatus, fileLog, fileIdx, reviewResults, allFeedback>>
             ELSE /\ providerLog' = log
                  /\ callStatus' = "returned"
                  /\ FileReviewed(salesforceFiles[fileIdx], out.text)
                  /\ UNCHANGED primaryError
    /\ UNCHANGED <<request, prFiles, salesforceFiles, fallbackError, callError,
                   inlineIdx, posts, runError>>
    /\ UNCHANGED <<fileFetches, summaryListing>>
    /\ UNCHANGED <<resolverVars, parseVars, callVars, sharedVars>>

\* the fallback provider's generateReview settles
FallbackSettle ==
    /\ pc = "fallback"
    /\ \E out \in BackendOutcomes(FallbackProvider) :
         /\ providerLog' = Append(providerLog, Settled("fallback", FallbackProvider, out))
         /\ IF EntersCatch(FallbackProvider, out)
            THEN /\ fallbackError' = AdapterError(FallbackProvider, out)
                 /\ callError' = CombinedError(primaryError, fallbackError')
                 /\ callStatus' = "failed"
                 /\ FileFailed(salesforceFiles[fileIdx])
            ELSE /\ callStatus' = "returned"
                 /\ FileReviewed(salesforceFiles[fileIdx], out.text)
                 /\ UNCHANGED <<fallbackError, callError>>
    /\ UNCHANGED <<request, prFiles, salesforceFiles, primaryError, inlineIdx, posts, runError>>
    /\ UNCHANGED <<fileFetches, summaryListing>>
    /\ UNCHANGED <<resolverVars, parseVars, callVars, sharedVars>>

\* mutant of LoopDone: the loop counts as done after its first file
LoopDoneAfterFirstFile == fileIdx > 1

\* the for loop over salesforceFiles has no file left
LoopDone == fileIdx > Len(salesforceFiles)

\* how far postBatchedPullRequestReview gets with the listing for the summary:
\* not to it when building an inline comment throws, else to its outcome
SummaryListing(feedback, listed) ==
    IF \E i \in 1..Len(feedback) : SuggestionThrows(feedback[i]) THEN "none"
    ELSE IF listed THEN "listed"
    ELSE "failed"

\* mutant of ReachesSubmission: a listing that failed is taken for an empty one
ReachesSubmissionUnlisted(listing, results, files) ==
    listing # "none" /\ ~SummaryThrows(results, files)

\* whether the try block of postBatchedPullRequestReview gets as far as
\* createPullRequestReview: the listing succeeded and the summary was rendered
ReachesSubmission(listing, results, files) ==
    listing = "listed" /\ ~SummaryThrows(results, files)

\* the loop is left, and with it the last generateReview call;
\* postBatchedPullRequestReview up to the end of its try block
PostBatched ==
    /\ pc = "loop"
    /\ LoopDone
    /\ \E listed \in BOOLEAN, created \in BOOLEAN :
         /\ summaryListing' = SummaryListing(allFeedback, listed)
         /\ IF ~ReachesSubmission(SummaryListing(allFeedback, listed), reviewResults, prFiles)
            THEN /\ pc' = "inline"
                 /\ UNCHANGED posts
            ELSE
              /\ posts' = Append(posts,
                    [kind |-> "review",
                     event |-> ReviewEvent(allFeedback),
                     body |-> generateSummary(reviewResults, allFeedback, prFiles),
                     comments |-> [i \in 1..Len(allFeedback) |->
                                     InlineComment(allFeedback[i])],
                     findings |-> allFeedback,
                     ok |-> created])
              /\ pc' = IF created THEN "done" ELSE "inline"
    /\ inlineIdx' = 1
    /\ NoCall
    /\ UNCHANGED <<request, prFiles, salesforceFiles, fileIdx, reviewResults, allFeedback,
                   fileLog, runError>>
    /\ UNCHANGED fileFetches
    /\ UNCHANGED <<resolverVars, parseVars, callVars, sharedVars>>

\* mutant of NextInlineIdx: a comment that failed ends the loop
NextInlineIdxStopsOnFailure(idx, created) ==
    IF created THEN idx + 1 ELSE Len(allFeedback) + 1

\* the loop index of postInlineComments after one comment, posted or caught
NextInlineIdx(idx, created) == idx + 1

\* one iteration of the loop of postInlineComments
PostInlineComment ==
    /\ pc = "inline"
    /\ inlineIdx <= Len(allFeedback)
    /\ \E created \in BOOLEAN :
         /\ posts' = Append(posts, [kind |-> "inline",
                                    comment |-> FallbackComment(allFeedback[inlineIdx]),
                                    ok |-> created])
         /\ inlineIdx' = NextInlineIdx(inlineIdx, created)
    /\ UNCHANGED <<pc, request, prFiles, salesforceFiles, fileIdx, reviewResults, allFeedback,
                   callStatus, providerLog, primaryError, fallbackError, callError,
                   fileLog, runError>>
    /\ UNCHANGED <<fileFetches, summaryListing>>
    /\ UNCHANGED <<resolverVars, parseVars, callVars, sharedVars>>

\* postSummaryComment, after the loop of postInlineComments
PostSummaryComment ==
    /\ pc = "inline"
    /\ inlineIdx > Len(allFeedback)
    /\ IF SummaryThrows(reviewResults, <<>>)
       THEN UNCHANGED posts
       ELSE \E created \in BOOLEAN :
              posts' = Append(posts, [kind |-> "summary-comment",
                                      body |-> generateSummary(reviewResults, allFeedback, <<>>),
                                      ok |-> created])
    /\ pc' = "done"
    /\ UNCHANGED <<request, prFiles, salesforceFiles, fileIdx, reviewResults, allFeedback,
                   callStatus, providerLog, primaryError, fallbackError, callError,
                   fileLog, inlineIdx, runError>>
    /\ UNCHANGED <<fileFetches, summaryListing>>
    /\ UNCHANGED <<resolverVars, parseVars, callVars, sharedVars>>

\* error.message of an error whose `${error}` is the given text
MessageOf(errorText) == SubSeq(errorText, Len("Error: ") + 1, Len(errorText))

\* mutant of AfterErrorComment: a diagnostic comment that fails is rethrown
AfterErrorCommentRethrows(created) == IF created THEN "done" ELSE "escaped"

\* where postErrorComment leaves the run: its catch only logs
AfterErrorComment(created) == "done"

\* postErrorComment, from the catch block of reviewPullRequest
PostErrorComment ==
    /\ pc = "errorComment"
    /\ \E created \in BOOLEAN :
         /\ posts' = Append(posts, [kind |-> "error-comment",
                                    message |-> MessageOf(runError),
                                    ok |-> created])
         /\ pc' = AfterErrorComment(created)
    /\ UNCHANGED <<request, prFiles, salesforceFiles, fileIdx, reviewResults, allFeedback,
                   callStatus, providerLog, primaryError, fallbackError, callError,
                   fileLog, inlineIdx, runError>>
    /\ UNCHANGED <<fileFetches, summaryListing>>
    /\ UNCHANGED <<resolverVars, parseVars, callVars, sharedVars>>

\* WebhookHandler.processReviewAsync: an error thrown by reviewPullRequest is
\* caught and logged
ProcessReviewAsyncCatch ==
    /\ pc = "escaped"
    /\ pc' = "logged"
    /\ UNCHANGED <<request, prFiles, salesforceFiles, fileIdx, reviewResults, allFeedback,
                   callStatus, providerLog, primaryError, fallbackError, callError,
                   fileLog, inlineIdx, posts, runError>>
    /\ UNCHANGED <<fileFetches, summaryListing>>
    /\ UNCHANGED <<resolverVars, parseVars, callVars, sharedVars>>

(***************************************************************************)
(* BaseLLMProvider.parseReviewResponse on its own                           *)
(***************************************************************************)
\* bound: the most lines of a free-text response
MaxLines == 2

\* the lines free-text responses are made of
ResponseLines ==
    { "File: Foo.cls",
      "File: force-app/main/default/classes/Foo.cls",
      "Line 5: SOQL injection vulnerability here",
      "Line 0: nothing",
      "This is a warning about slow performance",
      "Consider a refactor to follow the standard",
      "short" }

\* the texts of at most n lines
RECURSIVE TextsUpTo(_)
TextsUpTo(n) ==
    IF n = 1 THEN ResponseLines
    ELSE TextsUpTo(n - 1) \cup {t \o "\n" \o l : t \in TextsUpTo(n - 1), l \in ResponseLines}

\* what may stand before and after the body of a response
Openings == {"", Fence \o "json\n", Fence \o "\n", Fence \o "apex\n", " "}
Closings == {"", "\n" \o Fence, "\n"}

\* the response arguments tried
ParseInputs ==
    {o \o body \o c :
        o \in Openings, c \in Closings,
        body \in {""} \cup {JsonDocuments[i].text : i \in 1..Len(JsonDocuments)}
                 \cup TextsUpTo(MaxLines)}

ParseResponse ==
    /\ pPc = "input"
    /\ parsed' = parseReviewResponse(responseText)
    /\ pPc' = "parsed"
    /\ UNCHANGED responseText
    /\ UNCHANGED <<resolverVars, runVars, callVars, sharedVars>>

(***************************************************************************)
(* Two fetchContextFiles calls on one ContextFetcher.  A call runs from one *)
(* await to the next without interruption; at an await the other call may   *)
(* run.  Both work on this.visitedFiles and this.contextFiles.              *)
(***************************************************************************)
RunIds == {1, 2}

\* the changedFiles argument of each call
InterleavedInputs == [r \in RunIds |-> IF r = 1 THEN <<PathA, PathT>> ELSE <<PathJ>>]

\* a call that has not started
NotStarted ==
    [pc |-> "idle", order |-> <<>>, idx |-> 1, stack |-> <<>>, path |-> "",
     dependencies |-> <<>>, visited |-> {}, result |-> <<>>]

\* fetchContextFiles up to its loop
StartRun(r) ==
    /\ runs[r].pc = "idle"
    /\ LET sfFiles == SelectSeq(InterleavedInputs[r], isSalesforceFile)
           prioritizedFiles == getFilesByPriority(sfFiles)
       IN  runs' = [runs EXCEPT ![r].pc = "loop",
                                ![r].order = prioritizedFiles.high \o prioritizedFiles.medium
                                             \o prioritizedFiles.low]
    /\ sharedVisited' = {}
    /\ sharedContext' = <<>>
    /\ UNCHANGED reviews
    /\ UNCHANGED <<resolverVars, parseVars, runVars, callVars>>

\* processFile up to the await of getFileContent; the other loops stay as `stack`
EnterProcessFile(r, filePath, idx, stack) ==
    IF filePath \in sharedVisited
    THEN /\ runs' = [runs EXCEPT ![r].idx = idx, ![r].stack = stack]
         /\ UNCHANGED sharedVisited
    ELSE /\ sharedVisited' = sharedVisited \cup {filePath}
         /\ runs' = [runs EXCEPT ![r].idx = idx, ![r].stack = stack, ![r].pc = "fetching",
                                  ![r].path = filePath,
                                  ![r].visited = runs[r].visited \cup {filePath}]

\* the next iteration of the innermost loop of a call: the loop of
\* fetchDependencies when one is active, else the loop of fetchContextFiles,
\* which returns a copy of this.contextFiles when it ends
AdvanceRun(r) ==
    /\ runs[r].pc = "loop"
    /\ LET stack == runs[r].stack
       IN  IF stack # <<>>
           THEN IF Head(stack) = <<>> \/ BudgetReached(sharedContext)
                THEN /\ runs' = [runs EXCEPT ![r].stack = Tail(stack)]
                     /\ UNCHANGED sharedVisited
                ELSE EnterProcessFile(r, Head(Head(stack)), runs[r].idx,
                                      <<Tail(Head(stack))>> \o Tail(stack))
           ELSE IF runs[r].idx > Len(runs[r].order) \/ BudgetReached(sharedContext)
                THEN /\ runs' = [runs EXCEPT ![r].pc = "done", ![r].result = sharedContext]
                     /\ UNCHANGED sharedVisited
                ELSE EnterProcessFile(r, runs[r].order[runs[r].idx], runs[r].idx + 1, <<>>)
    /\ UNCHANGED sharedContext
    /\ UNCHANGED reviews
    /\ UNCHANGED <<resolverVars, parseVars, runVars, callVars>>

\* getFileContent settles: the rest of processFile, and fetchDependencies up to
\* the await of resolveDependencyPaths
ContentSettles(r) ==
    /\ runs[r].pc = "fetching"
    /\ \E out \in GetFileContentOutcomes(runs[r].path) :
         LET filePath == runs[r].path
             fileType == getFileType(filePath)
             stored == [p \in DOMAIN sharedContext \cup {filePath} |->
                          IF p = filePath
                          THEN ContextFile(filePath, out.content, fileType)
                          ELSE sharedContext[p]]
             dependencies == extractDependencies(out.content, fileType)
         IN  IF out.kind = "throw" \/ RecordsNothing(out.content, fileType)
             THEN /\ runs' = [runs EXCEPT ![r].pc = "loop"]
                  /\ UNCHANGED sharedContext
             ELSE /\ sharedContext' = stored
                  /\ runs' = IF BudgetReached(stored) \/ Len(dependencies) = 0
                             THEN [runs EXCEPT ![r].pc = "loop"]
                             ELSE [runs EXCEPT ![r].pc = "resolving",
                                               ![r].dependencies = dependencies]
    /\ UNCHANGED sharedVisited
    /\ UNCHANGED reviews
    /\ UNCHANGED <<resolverVars, parseVars, runVars, callVars>>

\* resolveDependencyPaths settles (every probe and search answered)
PathsResolved(r) ==
    /\ runs[r].pc = "resolving"
    /\ runs' = [runs EXCEPT ![r].pc = "loop",
                            ![r].stack = <<resolveDependencyPaths(runs[r].dependencies,
                                                                 runs[r].path, {}, {})>>
                                         \o runs[r].stack]
    /\ UNCHANGED <<sharedVisited, sharedContext>>
    /\ UNCHANGED reviews
    /\ UNCHANGED <<resolverVars, parseVars, runVars, callVars>>

(***************************************************************************)
(* Two reviewPullRequest calls on one ReviewService, interleaved at their   *)
(* awaits (WebhookHandler.processReviewAsync is not awaited)                *)
(***************************************************************************)
ReviewIds == {1, 2}

\* the changed files of the pull request of each call
ReviewInputs == [r \in ReviewIds |-> IF r = 1 THEN <<FooCls, CompJs>> ELSE <<BarTrigger>>]

\* what a generateReview call of these runs ends with: a text a provider
\* answered, or the error thrown when both providers failed
GenerateReviewOutcomes ==
    {[kind |-> "returned", text |-> t] :
        t \in {DocCriticalPlainText, DocWarningText,
               Fence \o "json\n" \o DocNoIssuesText \o "\n" \o Fence}} \cup
    {[kind |-> "threw", text |-> ""]}

\* a call that has not started
NotReviewing ==
    [pc |-> "idle", salesforceFiles |-> <<>>, fileIdx |-> 1, code |-> "",
     reviewResults |-> <<>>, allFeedback |-> <<>>, log |-> <<>>,
     inlineIdx |-> 1, posts |-> <<>>]

\* mutant of ScopeOf: the arrays are fields of the service
ScopeOfService(r) == 1

\* where reviewResults and allFeedback of call r live: they are constants
\* declared in the body of reviewPullRequest, one pair per call
ScopeOf(r) == r

\* reviewResults and allFeedback as call r reads them
ResultsOf(r) == reviews[ScopeOf(r)].reviewResults
FeedbackOf(r) == reviews[ScopeOf(r)].allFeedback

\* reviewPullRequest up to its first await
StartReview(r) ==
    /\ reviews[r].pc = "idle"
    /\ reviews' = [reviews EXCEPT ![r].pc = "listing"]
    /\ UNCHANGED <<runs, sharedVisited, sharedContext>>
    /\ UNCHANGED <<resolverVars, parseVars, runVars, callVars>>

\* getPullRequestFiles settles; the files are filtered and the arrays created
ReviewListFiles(r) ==
    /\ reviews[r].pc = "listing"
    /\ \E ok \in BOOLEAN :
         LET sfFiles == SelectSeq(ReviewInputs[r], IsReviewable)
         IN  IF ~ok
             THEN reviews' = [reviews EXCEPT ![r].pc = "errorComment"]
             ELSE IF Len(sfFiles) = 0
             THEN reviews' = [reviews EXCEPT ![r].pc = "done"]
             ELSE reviews' = [reviews EXCEPT ![ScopeOf(r)].reviewResults = <<>>,
                                             ![ScopeOf(r)].allFeedback = <<>>,
                                             ![r].salesforceFiles = sfFiles,
                                             ![r].pc = "loop"]
    /\ UNCHANGED <<runs, sharedVisited, sharedContext>>
    /\ UNCHANGED <<resolverVars, parseVars, runVars, callVars>>

\* one iteration of the loop up to the await of generateReview
ReviewBeginFile(r) ==
    /\ reviews[r].pc = "loop"
    /\ reviews[r].fileIdx <= Len(reviews[r].salesforceFiles)
    /\ LET file == reviews[r].salesforceFiles[reviews[r].fileIdx]
       IN  IF ~NeedsFullFile(file)
           THEN reviews' = [reviews EXCEPT ![r].code = file.patch, ![r].pc = "reviewing"]
           ELSE \E out \in ReviewContentOutcomes :
                  CASE out.kind = "throw" ->
                         reviews' = [reviews EXCEPT
                                        ![r].fileIdx = NextAfterCatch(reviews[r].fileIdx)]
                    [] out.kind = "ok" /\ out.text = "" ->
                         reviews' = [reviews EXCEPT ![r].fileIdx = reviews[r].fileIdx + 1]
                    [] OTHER ->
                         reviews' = [reviews EXCEPT ![r].code = out.text,
                                                    ![r].pc = "reviewing"]
    /\ UNCHANGED <<runs, sharedVisited, sharedContext>>
    /\ UNCHANGED <<resolverVars, parseVars, runVars, callVars>>

\* the file of the iteration call r is in
FileOf(r) == reviews[r].salesforceFiles[reviews[r].fileIdx]

\* the review as it is pushed: its findings carry the file's name
ReviewOf(file, review) ==
    JObj([k \in DOMAIN review.o |->
            IF k = "feedback" THEN JArr(MapFeedback(review, file.filename)) ELSE review.o[k]])

\* generateReview settles; the rest of the file's try block, or its catch
ReviewSettles(r) ==
    /\ reviews[r].pc = "reviewing"
    /\ \E out \in GenerateReviewOutcomes :
         IF out.kind = "threw"
         THEN reviews' = [reviews EXCEPT
                             ![r].fileIdx = NextAfterCatch(reviews[r].fileIdx),
                             ![r].pc = "loop"]
         ELSE reviews' = [reviews EXCEPT
                             ![ScopeOf(r)].reviewResults =
                                 Append(@, ReviewOf(FileOf(r), ParsedResponse[out.text])),
                             ![ScopeOf(r)].allFeedback =
                                 @ \o MapFeedback(ParsedResponse[out.text], FileOf(r).filename),
                             ![r].log = Append(@, [file |-> FileOf(r).filename,
                                                   text |-> out.text]),
                             ![r].fileIdx = reviews[r].fileIdx + 1,
                             ![r].pc = "loop"]
    /\ UNCHANGED <<runs, sharedVisited, sharedContext>>
    /\ UNCHANGED <<resolverVars, parseVars, runVars, callVars>>

\* the loop is left; postBatchedPullRequestReview up to the end of its try block
ReviewPostBatched(r) ==
    /\ reviews[r].pc = "loop"
    /\ reviews[r].fileIdx > Len(reviews[r].salesforceFiles)
    /\ \E listed \in BOOLEAN, created \in BOOLEAN :
         IF ~ReachesSubmission(SummaryListing(FeedbackOf(r), listed), ResultsOf(r),
                               ReviewInputs[r])
         THEN reviews' = [reviews EXCEPT ![r].inlineIdx = 1, ![r].pc = "inline"]
         ELSE reviews' = [reviews EXCEPT
                    ![r].posts = Append(@,
                        [kind |-> "review",
                         event |-> ReviewEvent(FeedbackOf(r)),
                         body |-> generateSummary(ResultsOf(r), FeedbackOf(r), ReviewInputs[r]),
                         comments |-> [i \in 1..Len(FeedbackOf(r)) |->
                                         InlineComment(FeedbackOf(r)[i])],
                         findings |-> FeedbackOf(r),
                         ok |-> created]),
                    ![r].inlineIdx = 1,
                    ![r].pc = IF created THEN "done" ELSE "inline"]
    /\ UNCHANGED <<runs, sharedVisited, sharedContext>>
    /\ UNCHANGED <<resolverVars, parseVars, runVars, callVars>>

\* one iteration of the loop of postInlineComments
ReviewPostInline(r) ==
    /\ reviews[r].pc = "inline"
    /\ reviews[r].inlineIdx <= Len(FeedbackOf(r))
    /\ \E created \in BOOLEAN :
         reviews' = [reviews EXCEPT
            ![r].posts = Append(@,
                [kind |-> "inline",
                 comment |-> FallbackComment(FeedbackOf(r)[reviews[r].inlineIdx]),
                 ok |-> created]),
            ![r].inlineIdx = reviews[r].inlineIdx + 1]
    /\ UNCHANGED <<runs, sharedVisited, sharedContext>>
    /\ UNCHANGED <<resolverVars, parseVars, runVars, callVars>>

\* postSummaryComment, after the loop of postInlineComments
ReviewPostSummary(r) ==
    /\ reviews[r].pc = "inline"
    /\ reviews[r].inlineIdx > Len(FeedbackOf(r))
    /\ IF SummaryThrows(ResultsOf(r), <<>>)
       THEN reviews' = [reviews EXCEPT ![r].pc = "done"]
       ELSE \E created \in BOOLEAN :
                  reviews' = [reviews EXCEPT
                     ![r].posts = Append(@, [kind |-> "summary-comment",
                                             body |-> generateSummary(ResultsOf(r),
                                                                      FeedbackOf(r), <<>>),
                                             ok |-> created]),
                     ![r].pc = "done"]
    /\ UNCHANGED <<runs, sharedVisited, sharedContext>>
    /\ UNCHANGED <<resolverVars, parseVars, runVars, callVars>>

\* postErrorComment, from the catch block of reviewPullRequest
ReviewPostError(r) ==
    /\ reviews[r].pc = "errorComment"
    /\ \E created \in BOOLEAN :
         reviews' = [reviews EXCEPT
            ![r].posts = Append(@, [kind |-> "error-comment",
                                    message |-> "Failed to fetch PR files: Error: request failed",
                                    ok |-> created]),
            ![r].pc = AfterErrorComment(created)]
    /\ UNCHANGED <<runs, sharedVisited, sharedContext>>
    /\ UNCHANGED <<resolverVars, parseVars, runVars, callVars>>

(***************************************************************************)
(* ContextFetcher.resolveDependencyPaths on its own                         *)
(***************************************************************************)
\* bound: the most dependency names of one call
MaxDependencies == 2

\* the dependency names tried
DependencyNames == {"B", "U", "helper", "Gone"}

\* the dependencies arguments of at most n names
RECURSIVE DependenciesUpTo(_)
DependenciesUpTo(n) ==
    IF n = 0 THEN {<<>>}
    ELSE DependenciesUpTo(n - 1)
         \cup {Append(d, name) : d \in DependenciesUpTo(n - 1), name \in DependencyNames}

\* the arguments tried, with the probes and the searches that fail
ResolveInputs ==
    [dependencies : DependenciesUpTo(MaxDependencies),
     currentFile : {PathA, "util/X.cls"},
     down : SUBSET {PathB, PathU},
     searchDown : SUBSET {"U"}]

\* one call of resolveDependencyPaths
ResolvePaths ==
    /\ fnPc = "resolve"
    /\ fnResult' = resolveDependencyPaths(fnArgs.dependencies, fnArgs.currentFile,
                                          fnArgs.down, fnArgs.searchDown)
    /\ fnPc' = "resolved"
    /\ UNCHANGED fnArgs
    /\ UNCHANGED <<resolverVars, parseVars, runVars, sharedVars>>

(***************************************************************************)
(* formatContext of the two adapters on its own                             *)
(***************************************************************************)
\* the character ceiling of a context file's content
ContextCeiling == 2000

\* appended to a content that was cut
TruncationMarker == "\n... (truncated)"

\* mutant of Truncated: a content of exactly the ceiling counts as cut
TruncatedFromCeiling(content) == Len(content) >= ContextCeiling

\* fileData.content.length > 2000
Truncated(content) == Len(content) > ContextCeiling

\* String.prototype.substring(0, end)
Substring0(text, end) == SubSeq(text, 1, IF Len(text) < end THEN Len(text) ELSE end)

\* what one iteration of the loop over context.entries() appends
ContextBlock(filePath, fileData) ==
    "\n### " \o filePath \o " (" \o fileData.type \o "):\n"
    \o Fence \o "\n"
    \o Substring0(fileData.content, ContextCeiling)
    \o (IF Truncated(fileData.content) THEN TruncationMarker ELSE "")
    \o "\n" \o Fence \o "\n"

\* the loop over the entries of the Map, in insertion order
RECURSIVE ContextBlocks(_)
ContextBlocks(entries) ==
    IF entries = <<>> THEN ""
    ELSE ContextBlock(Head(entries).path, Head(entries)) \o ContextBlocks(Tail(entries))

\* AnthropicProvider.formatContext and OpenAIProvider.formatContext (the same
\* text in both classes); the Map is given as its entries in insertion order
formatContext(context) ==
    IF Len(context) = 0 THEN ""
    ELSE "\n\n## Context Files:\n" \o ContextBlocks(context)

\* a text of n characters
RECURSIVE TextOfLength(_)
TextOfLength(n) ==
    IF n = 0 THEN ""
    ELSE IF n % 2 = 1 THEN "x" \o TextOfLength(n - 1)
    ELSE LET half == TextOfLength(n \div 2) IN half \o half

\* the contents tried: short, just below, at and above the ceiling
FormatContents ==
    {"x", TextOfLength(ContextCeiling - 1), TextOfLength(ContextCeiling),
     TextOfLength(ContextCeiling) \o "y", TextOfLength(ContextCeiling + ContextCeiling)}

\* the context files tried
FormatFiles ==
    {ContextFile(path, content, getFileType(path)) :
        path \in {PathA, PathJ}, content \in FormatContents}

\* the contexts tried: no, one or two files, for either adapter
FormatInputs ==
    [provider : {PrimaryProvider, FallbackProvider},
     context : {<<>>} \cup {<<f>> : f \in FormatFiles}
               \cup {<<f, g>> : f \in FormatFiles, g \in FormatFiles}]

\* one call of formatContext
FormatContext ==
    /\ fnPc = "context"
    /\ fnResult' = formatContext(fnArgs.context)
    /\ fnPc' = "formatted"
    /\ UNCHANGED fnArgs
    /\ UNCHANGED <<resolverVars, parseVars, runVars, sharedVars>>

(***************************************************************************)
(* config/index.ts: the review limits read from the environment             *)
(***************************************************************************)
\* Joi.number().default(...) of MAX_CONTEXT_FILES, MAX_FILE_SIZE_KB, REVIEW_TIMEOUT_MS
DefaultMaxContextFiles == 10
DefaultMaxFileSizeKb == 100
DefaultReviewTimeoutMs == 300000

\* a variable that is not in process.env
Absent == "<absent>"

ReviewVariables == {"MAX_CONTEXT_FILES", "MAX_FILE_SIZE_KB", "REVIEW_TIMEOUT_MS"}

\* the environments tried: each variable absent or set to a text
Environments == [ReviewVariables -> {Absent, "5", "10", "2000", "many"}]

\* Joi.number() on the text of a variable: its number when it is written in digits
IsNumeric(text) == text # "" /\ \A i \in 1..Len(text) : IsDigit(CharAt(text, i))

\* Joi.number().default(d) on process.env[name]
NumberOrDefault(env, name, default) ==
    IF env[name] = Absent THEN default ELSE ParseInt(env[name])

\* configSchema.validate(process.env) and the config object built of its value;
\* a validation error is thrown while the module loads
LoadConfig ==
    /\ fnPc = "env"
    /\ fnResult' =
         IF \E name \in ReviewVariables : fnArgs[name] # Absent /\ ~IsNumeric(fnArgs[name])
         THEN [error |-> "Config validation error"]
         ELSE [review |->
                 [maxContextFiles |-> NumberOrDefault(fnArgs, "MAX_CONTEXT_FILES",
                                                      DefaultMaxContextFiles),
                  maxFileSizeKb |-> NumberOrDefault(fnArgs, "MAX_FILE_SIZE_KB",
                                                    DefaultMaxFileSizeKb),
                  timeoutMs |-> NumberOrDefault(fnArgs, "REVIEW_TIMEOUT_MS",
                                                DefaultReviewTimeoutMs)]]
    /\ fnPc' = "loaded"
    /\ UNCHANGED fnArgs
    /\ UNCHANGED <<resolverVars, parseVars, runVars, sharedVars>>

(***************************************************************************)
(* SalesforceFileDetector.extractDependencies on its own                    *)
(***************************************************************************)
\* the contents tried: what the Apex patterns, the import pattern and the
\* Aura tag pattern capture in them, in order, with repeats
ExtractContents ==
    {Content(apexRefs, importRefs, auraRefs) :
        apexRefs \in {<<>>, <<"B">>, <<"B", "U", "B">>},
        importRefs \in {<<>>, <<"lwc">>, <<"c/helper", "lwc", "c/helper">>},
        auraRefs \in {<<>>, <<"c:Foo">>, <<"c:Foo", "lightning:button", "c:Foo">>}}

\* the arguments tried: a content and an entry of the table
ExtractInputs ==
    [content : ExtractContents,
     fileType : {SALESFORCE_FILE_TYPES[i] : i \in 1..Len(SALESFORCE_FILE_TYPES)}]

\* one call of extractDependencies
ExtractDependencies ==
    /\ fnPc = "extract"
    /\ fnResult' = extractDependencies(fnArgs.content, fnArgs.fileType)
    /\ fnPc' = "extracted"
    /\ UNCHANGED fnArgs
    /\ UNCHANGED <<resolverVars, parseVars, runVars, sharedVars>>

(***************************************************************************)
(* SalesforceFileDetector.getFileType and isSalesforceFile on their own     *)
(***************************************************************************)
\* what the paths tried begin with
ClassifyStems == {"", "force-app/main/default/classes/Foo", "src/a.cls"}

\* what they end with: every extension of the table and some others
ClassifySuffixes ==
    {SALESFORCE_FILE_TYPES[i].extension : i \in 1..Len(SALESFORCE_FILE_TYPES)}
    \cup {".md", ".xml", "-meta.xml", ".CLS", ".cls.bak", ".json", ".pages", ".jsx"}

ClassifyPaths == {stem \o suffix : stem \in ClassifyStems, suffix \in ClassifySuffixes}

\* one call of each of the two functions with the same path
Classify ==
    /\ fnPc = "input"
    /\ fnResult' = [fileType |-> getFileType(fnArgs.path),
                    isSalesforceFile |-> isSalesforceFile(fnArgs.path)]
    /\ fnPc' = "returned"
    /\ UNCHANGED fnArgs
    /\ UNCHANGED <<resolverVars, parseVars, runVars, sharedVars>>

(***************************************************************************)
(* Specifications                                                           *)
(***************************************************************************)
IdleResolver ==
    /\ rPc = "idle" /\ changedFiles = <<>> /\ processOrder = <<>> /\ orderIdx = 1
    /\ visitedFiles = {} /\ contextFiles = <<>> /\ depStack = <<>>
    /\ contentCalls = EmptyBag /\ probeCalls = EmptyBag /\ resolved = <<>>
    /\ fetchLog = <<>>

IdleParse == pPc = "parsed" /\ responseText = "" /\ parsed = parseReviewResponse("")

IdleRun ==
    /\ pc = "idle" /\ request = [repositoryName |-> "", headSha |-> ""]
    /\ prFiles = <<>> /\ salesforceFiles = <<>> /\ fileIdx = 1
    /\ reviewResults = <<>> /\ allFeedback = <<>>
    /\ callStatus = "none" /\ providerLog = <<>>
    /\ primaryError = "" /\ fallbackError = "" /\ callError = ""
    /\ fileLog = <<>> /\ fileFetches = <<>> /\ summaryListing = "none" /\ inlineIdx = 1 /\ posts = <<>> /\ runError = ""

IdleCall == fnPc = "idle" /\ fnArgs = <<>> /\ fnResult = <<>>

IdleShared == runs = <<>> /\ sharedVisited = {} /\ sharedContext = <<>> /\ reviews = <<>>

\* one ContextFetcher, used for one resolution after another
InitResolver == IdleResolver /\ IdleParse /\ IdleRun /\ IdleCall /\ IdleShared
NextResolver == FetchContextFiles \/ MainLoopStep \/ DepLoopStep \/ ReturnContext
SpecResolver == InitResolver /\ [][NextResolver]_vars

\* one call of fetchContextFiles on a new ContextFetcher, running on: every
\* await of the call settles (the collaborator answers or throws), and the
\* loops then take their next step
NextOneCall ==
    \/ rPc = "idle" /\ FetchContextFiles
    \/ MainLoopStep
    \/ DepLoopStep
    \/ ReturnContext
FairSpecResolver ==
    /\ InitResolver /\ [][NextOneCall]_vars
    /\ WF_vars(MainLoopStep \/ DepLoopStep \/ ReturnContext)

\* one call of parseReviewResponse
InitParse == IdleResolver /\ IdleRun /\ IdleCall /\ IdleShared
             /\ pPc = "input" /\ responseText \in ParseInputs /\ parsed = JUndefined
NextParse == ParseResponse
SpecParse == InitParse /\ [][NextParse]_vars

\* two calls of fetchContextFiles on one ContextFetcher, started in any order
InitInterleaved == IdleResolver /\ IdleParse /\ IdleRun /\ IdleCall
                   /\ runs = [r \in RunIds |-> NotStarted]
                   /\ sharedVisited = {} /\ sharedContext = <<>> /\ reviews = <<>>
NextInterleaved ==
    \E r \in RunIds : StartRun(r) \/ AdvanceRun(r) \/ ContentSettles(r) \/ PathsResolved(r)
SpecInterleaved == InitInterleaved /\ [][NextInterleaved]_vars

\* two reviewPullRequest calls on one ReviewService
InitConcurrentReviews == IdleResolver /\ IdleParse /\ IdleRun /\ IdleCall
                         /\ runs = <<>> /\ sharedVisited = {} /\ sharedContext = <<>>
                         /\ reviews = [r \in ReviewIds |-> NotReviewing]
NextConcurrentReviews ==
    \E r \in ReviewIds :
        \/ StartReview(r)
        \/ ReviewListFiles(r)
        \/ ReviewBeginFile(r)
        \/ ReviewSettles(r)
        \/ ReviewPostBatched(r)
        \/ ReviewPostInline(r)
        \/ ReviewPostSummary(r)
        \/ ReviewPostError(r)
SpecConcurrentReviews == InitConcurrentReviews /\ [][NextConcurrentReviews]_vars

\* one resolution of a list of dependency names
InitResolvePaths == IdleResolver /\ IdleParse /\ IdleRun /\ IdleShared
                    /\ fnPc = "resolve" /\ fnArgs \in ResolveInputs /\ fnResult = <<>>
NextResolvePaths == ResolvePaths
SpecResolvePaths == InitResolvePaths /\ [][NextResolvePaths]_vars

\* one rendering of a context
InitFormat == IdleResolver /\ IdleParse /\ IdleRun /\ IdleShared
              /\ fnPc = "context" /\ fnArgs \in FormatInputs /\ fnResult = <<>>
NextFormat == FormatContext
SpecFormat == InitFormat /\ [][NextFormat]_vars

\* one load of the configuration module
InitConfig == IdleResolver /\ IdleParse /\ IdleRun /\ IdleShared
              /\ fnPc = "env" /\ fnArgs \in Environments /\ fnResult = <<>>
NextConfig == LoadConfig
SpecConfig == InitConfig /\ [][NextConfig]_vars

\* one extraction of dependency names
InitExtract == IdleResolver /\ IdleParse /\ IdleRun /\ IdleShared
               /\ fnPc = "extract" /\ fnArgs \in ExtractInputs /\ fnResult = <<>>
NextExtract == ExtractDependencies
SpecExtract == InitExtract /\ [][NextExtract]_vars

\* one classification of a path
InitClassify == IdleResolver /\ IdleParse /\ IdleRun /\ IdleShared
                /\ fnPc = "input" /\ fnArgs \in {[path |-> p] : p \in ClassifyPaths}
                /\ fnResult = <<>>
NextClassify == Classify
SpecClassify == InitClassify /\ [][NextClassify]_vars

\* one run of reviewPullRequest
Init == IdleResolver /\ IdleParse /\ IdleRun /\ IdleCall /\ IdleShared
Next ==
    \/ ReviewPullRequest
    \/ ListFiles
    \/ BeginFile
    \/ PrimarySettle
    \/ FallbackSettle
    \/ PostBatched
    \/ PostInlineComment
    \/ PostSummaryComment
    \/ PostErrorComment
    \/ ProcessReviewAsyncCatch
Spec == Init /\ [][Next]_vars


(***************************************************************************)
(* Properties of LLMManager.generateReview                                  *)
(***************************************************************************)
\* the positions of the log where the given provider was started
StartsOf(provider) ==
    {i \in 1..Len(providerLog) :
        providerLog[i].provider = provider /\ providerLog[i].event = "start"}

\* the positions of the log where a call of the given provider ended as given
EndsOf(provider, event) ==
    {i \in 1..Len(providerLog) :
        providerLog[i].provider = provider /\ providerLog[i].event = event}

\* C3: fallback guarantee. Whenever the primary provider's generateReview has
\* failed, the next thing the manager does is to invoke the fallback provider
\* with the prompt, code and context the primary was given; and the call is
\* reported as failed only when both the primary and the fallback have failed.
C3_FallbackGuarantee ==
    /\ \A i \in EndsOf("primary", "fail") :
         /\ i + 1 <= Len(providerLog)
         /\ providerLog[i + 1].provider = "fallback"
         /\ providerLog[i + 1].event = "start"
         /\ providerLog[i + 1].name = FallbackProvider
         /\ providerLog[i + 1].prompt = providerLog[1].prompt
         /\ providerLog[i + 1].code = providerLog[1].code
         /\ providerLog[i + 1].context = providerLog[1].context
    /\ callStatus = "failed" =>
         /\ EndsOf("primary", "fail") # {}
         /\ EndsOf("fallback", "fail") # {}
         /\ \A i \in EndsOf("primary", "fail"), j \in StartsOf("fallback"),
               k \in EndsOf("fallback", "fail") : i < j /\ j < k

\* the primary timed out, the fallback was invoked and failed too
C3_Witness ==
    /\ callStatus = "failed"
    /\ Len(providerLog) = 4
    /\ Includes(providerLog[2].error, "timeout after 300000ms")
    /\ providerLog[1].code # ""

\* C4: the primary -> fallback sequence is strictly ordered and single-hop.
\* The fallback is started only right after the failure of the primary was
\* observed, never after the primary succeeded, and one call makes at most
\* one primary attempt and at most one fallback attempt.
C4_OrderedSingleHop ==
    /\ Cardinality(StartsOf("primary")) <= 1
    /\ Cardinality(StartsOf("fallback")) <= 1
    /\ \A j \in StartsOf("fallback") :
         /\ j > 1
         /\ providerLog[j - 1].provider = "primary"
         /\ providerLog[j - 1].event = "fail"
    /\ \A i \in EndsOf("primary", "ok") : i = Len(providerLog)
    /\ \A i \in EndsOf("fallback", "ok") \cup EndsOf("fallback", "fail") :
         i = Len(providerLog)

\* the primary failed, the fallback answered: one attempt each
C4_Witness ==
    /\ callStatus = "returned"
    /\ Len(providerLog) = 4
    /\ providerLog[2].event = "fail"
    /\ providerLog[4].event = "ok"

\* C5: when both providers fail, the call fails with one combined error that
\* carries the failure of the primary and the failure of the fallback.
C5_CombinedError ==
    callStatus = "failed" =>
        /\ primaryError # ""
        /\ fallbackError # ""
        /\ primaryError = providerLog[2].error
        /\ fallbackError = providerLog[4].error
        /\ Includes(callError, "All LLM providers failed")
        /\ Includes(callError, primaryError)
        /\ Includes(callError, fallbackError)

\* both failed, in different ways
C5_Witness ==
    /\ callStatus = "failed"
    /\ Includes(primaryError, "Invalid response type from Anthropic")
    /\ Includes(fallbackError, "Empty response from OpenAI")
    /\ callError # ""

(***************************************************************************)
(* Properties of ReviewService                                              *)
(***************************************************************************)
\* the positions of the combined reviews among the submissions
ReviewPosts == {i \in 1..Len(posts) : posts[i].kind = "review"}

\* C6: verdict monotonicity. Every combined review submitted has the verdict
\* request-changes if any of its merged findings is critical, approve if
\* there are no findings, and comment otherwise.
C6_VerdictMonotonicity ==
    \A i \in ReviewPosts :
        LET findings == posts[i].findings
            anyCritical == \E k \in 1..Len(findings) :
                              Get(findings[k], "severity") = JStr("critical")
        IN  /\ Len(posts[i].comments) = Len(findings)
            /\ anyCritical => posts[i].event = "REQUEST_CHANGES"
            /\ Len(findings) = 0 => posts[i].event = "APPROVE"
            /\ (~anyCritical /\ Len(findings) > 0) => posts[i].event = "COMMENT"

\* a combined review with a critical finding and another one
C6_Witness ==
    \E i \in ReviewPosts :
        /\ posts[i].event = "REQUEST_CHANGES"
        /\ Len(posts[i].findings) >= 2
        /\ \E k \in 1..Len(posts[i].findings) :
             Get(posts[i].findings[k], "severity") = JStr("warning")

\* the findings of the files of the log whose review succeeded, each with the
\* file it was found in, in the order of the log
RECURSIVE FindingsOfReviewed(_)
FindingsOfReviewed(log) ==
    IF log = <<>> THEN <<>>
    ELSE LET entry == log[Len(log)]
             own == IF entry.outcome = "reviewed"
                    THEN LET found == Get(ParsedResponse[entry.text], "feedback").a
                         IN  [k \in 1..Len(found) |->
                                JObj([f \in DOMAIN found[k].o \cup {"file"} |->
                                        IF f = "file" THEN JStr(entry.file)
                                        ELSE found[k].o[f]])]
                    ELSE <<>>
         IN  FindingsOfReviewed(SubSeq(log, 1, Len(log) - 1)) \o own

\* the loop over the files has ended
LoopEnded ==
    /\ salesforceFiles # <<>>
    /\ \/ pc = "loop" /\ fileIdx > Len(salesforceFiles)
       \/ pc \in {"inline", "done"}

\* C9: a single file's failure never aborts the run. When the loop has ended,
\* every file to review was handled, failed or not, in order; the merged
\* findings are exactly the findings of the files whose review succeeded, and
\* they are what the combined review reports.
C9_FileFailureIsolated ==
    /\ pc = "loop" => Len(fileLog) = fileIdx - 1
    /\ LoopEnded =>
         /\ Len(fileLog) = Len(salesforceFiles)
         /\ \A i \in 1..Len(fileLog) : fileLog[i].file = salesforceFiles[i].filename
    /\ allFeedback = FindingsOfReviewed(fileLog)
    /\ Len(reviewResults) =
         Cardinality({i \in 1..Len(fileLog) : fileLog[i].outcome = "reviewed"})
    /\ \A i \in ReviewPosts : posts[i].findings = FindingsOfReviewed(fileLog)

\* the first file failed, the second was reviewed and its finding is reported
C9_Witness ==
    /\ pc = "done"
    /\ Len(fileLog) = 2
    /\ fileLog[1].outcome = "failed"
    /\ fileLog[2].outcome = "reviewed"
    /\ \E i \in ReviewPosts :
         /\ Len(posts[i].findings) = 1
         /\ Get(posts[i].findings[1], "file") = JStr(fileLog[2].file)

\* the risk tiers the reviewed files' analyses supply
ExplicitRiskTiers ==
    {Get(Get(reviewResults[i], "prAnalysis"), "riskLevel") :
        i \in {k \in 1..Len(reviewResults) :
                 Truthy(Get(Get(reviewResults[k], "prAnalysis"), "riskLevel"))}}

\* C10: explicit risk tier. If any reviewed file's result carries an analysis
\* with a risk tier, every rendered summary shows a risk tier that was
\* supplied and not a derived one, wherever that result stands among the
\* results and whatever analyses stand before it.
C10_ExplicitRiskTier ==
    \A i \in 1..Len(posts) :
        (posts[i].kind \in {"review", "summary-comment"} /\ ExplicitRiskTiers # {})
            => JStr(posts[i].body.riskLevel) \in ExplicitRiskTiers

(***************************************************************************)
(* Properties of parseReviewResponse                                        *)
(***************************************************************************)
Severities == {"critical", "warning", "improvement"}
Categories == {"security", "performance", "maintainability", "best-practice", "bug"}

\* a CodeReviewFeedback value
IsFinding(v) ==
    /\ v.t = "object"
    /\ Get(v, "line").t = "number"
    /\ Get(v, "message").t = "string"
    /\ Get(v, "severity") \in {JStr(s) : s \in Severities}
    /\ Get(v, "category") \in {JStr(c) : c \in Categories}
    /\ Get(v, "file").t = "string"

\* a ReviewSummary value with every count
IsSummary(v) ==
    /\ v.t = "object"
    /\ \A k \in {"totalIssues", "criticalIssues", "warnings", "improvements"} :
         Get(v, k).t = "number"
    /\ Get(v, "categories").t = "object"

\* C7: normalizer total-failure-safety. Whatever the raw text, the result of
\* parseReviewResponse is well-formed: every finding has a line, a message,
\* one of the three severities, one of the five categories and a file, and
\* the summary has every severity count and the category counts.
C7_WellFormedResult ==
    pPc = "parsed" =>
        /\ Get(parsed, "feedback").t = "array"
        /\ \A k \in 1..Len(Get(parsed, "feedback").a) : IsFinding(Get(parsed, "feedback").a[k])
        /\ IsSummary(Get(parsed, "summary"))

\* the number of the findings whose field has the value
Tally(findings, field, value) ==
    Cardinality({k \in 1..Len(findings) : Get(findings[k], field) = JStr(value)})

\* C8: the summary of the result of parseReviewResponse is recomputed from
\* the returned findings: the total, the count per severity and the count
\* per category are those of the findings, on the structured path and on the
\* heuristic path.
C8_CountsRecomputed ==
    pPc = "parsed" =>
        LET findings == Get(parsed, "feedback").a
            summary == Get(parsed, "summary")
        IN  /\ Get(summary, "totalIssues") = JNum(Len(findings))
            /\ Get(summary, "criticalIssues") = JNum(Tally(findings, "severity", "critical"))
            /\ Get(summary, "warnings") = JNum(Tally(findings, "severity", "warning"))
            /\ Get(summary, "improvements") = JNum(Tally(findings, "severity", "improvement"))
            /\ \A c \in Categories :
                 IF Tally(findings, "category", c) = 0
                 THEN Get(Get(summary, "categories"), c) \in {JUndefined, JNum(0)}
                 ELSE Get(Get(summary, "categories"), c) = JNum(Tally(findings, "category", c))

\* the positions of the rendered summaries among the submissions
SummaryPosts == {i \in 1..Len(posts) : posts[i].kind \in {"review", "summary-comment"}}

\* the tier derived from the counts and the line deltas
DerivedTier(criticalCount, total, lines) ==
    IF criticalCount > 0 \/ total > 10 THEN "high"
    ELSE IF total > 3 \/ lines > 100 THEN "medium"
    ELSE "low"

\* C11: derived risk tier. When no reviewed file's result supplies a risk
\* tier, every rendered summary shows high if the critical count is > 0 or
\* the total is > 10, otherwise medium if the total is > 3 or the lines added
\* plus the lines deleted of the pull request are > 100, otherwise low.
C11_DerivedRiskTier ==
    \A i \in SummaryPosts :
        ExplicitRiskTiers = {} =>
            posts[i].body.riskLevel =
                DerivedTier(Tally(allFeedback, "severity", "critical"),
                            Len(allFeedback),
                            SumAdditions(prFiles) + SumDeletions(prFiles))

\* the submissions after the combined review at position i
PostsAfter(i) == SubSeq(posts, i + 1, Len(posts))

\* C12: best-effort delivery. If the submission of the combined review
\* fails, the run goes on to post every finding as an individual comment, in
\* order and whether or not the comments before it were accepted, and after
\* them one summary comment; no error escapes the run.
C12_BestEffortDelivery ==
    \A i \in ReviewPosts :
        ~posts[i].ok =>
            LET later == PostsAfter(i)
                inlineCount == IF pc = "inline" THEN inlineIdx - 1 ELSE Len(allFeedback)
            IN  /\ pc \in {"inline", "done"}
                /\ runError = ""
                /\ Len(later) = inlineCount + (IF pc = "done" THEN 1 ELSE 0)
                /\ \A k \in 1..inlineCount :
                     /\ later[k].kind = "inline"
                     /\ later[k].comment.path = Get(allFeedback[k], "file")
                     /\ later[k].comment.line = Get(allFeedback[k], "line")
                     /\ later[k].comment.message = Get(allFeedback[k], "message")
                /\ pc = "done" => later[Len(later)].kind = "summary-comment"

\* the combined review failed, the first individual comment failed too, the
\* second comment and the summary comment were posted all the same
C12_Witness ==
    /\ pc = "done"
    /\ Len(posts) = 4
    /\ posts[1].kind = "review" /\ ~posts[1].ok
    /\ posts[2].kind = "inline" /\ ~posts[2].ok
    /\ posts[3].kind = "inline" /\ posts[3].ok
    /\ posts[4].kind = "summary-comment" /\ posts[4].ok

\* the positions of the diagnostic comments among the submissions
ErrorPosts == {i \in 1..Len(posts) : posts[i].kind = "error-comment"}

\* the changed-file listing of the run failed
ListingFailed == Includes(runError, "Failed to fetch PR files")

\* C13: errored path. When the run hits an unrecoverable error such as a
\* failed listing of the changed files, it posts one diagnostic comment that
\* contains the error message and nothing else, and ends; whether or not
\* that comment is accepted, no error escapes reviewPullRequest.
C13_ErroredPath ==
    ListingFailed =>
        /\ pc \in {"errorComment", "done"}
        /\ pc = "errorComment" => posts = <<>>
        /\ pc = "done" =>
             /\ Len(posts) = 1
             /\ posts[1].kind = "error-comment"
             /\ Includes(runError, posts[1].message)
             /\ Includes(posts[1].message, "Failed to fetch PR files")

\* the listing failed and the diagnostic comment was refused as well
C13_Witness ==
    /\ ListingFailed
    /\ pc = "done"
    /\ Len(posts) = 1
    /\ ~posts[1].ok

\* the repository identifier of the run is not of the form owner/repo
MalformedIdentifier == pc # "idle" /\ Len(SplitSlash(request.repositoryName)) # 2

\* C14: a malformed repository identifier is a fatal input error that is
\* reported. No error escapes the run, no file is listed or reviewed, and the
\* run ends with a diagnostic comment that carries the error.
C14_MalformedIdentifierReported ==
    MalformedIdentifier =>
        /\ pc \notin {"escaped", "logged"}
        /\ salesforceFiles = <<>> /\ fileLog = <<>> /\ providerLog = <<>>
        /\ pc = "done" =>
             \E i \in ErrorPosts :
                 Includes(posts[i].message, "Invalid repository name format")

\* the pull request of the run has a file the run would review
HasReviewableFile == pc # "idle" /\ \E i \in 1..Len(prFiles) : IsReviewable(prFiles[i])

\* C15: never silence, never a crash. A run over a pull request with at
\* least one reviewable file never ends by raising an error out of
\* reviewPullRequest, and when it has ended it has submitted something to the
\* pull request: a combined review, its individual comments and summary
\* comment, or a diagnostic comment.
C15_NeverSilenceNeverCrash ==
    HasReviewableFile =>
        /\ pc \notin {"escaped", "logged"}
        /\ pc = "done" => posts # <<>>

\* the changed files were listed and filtered
Filtered == pc \in {"loop", "primary", "fallback", "inline", "done"} /\ runError = ""

\* C16: filtering. The files the run reviews are exactly the changed files
\* that are not removed and whose path has a recognized category, in the
\* order of the listing; when none remains the run ends successfully, no
\* provider was invoked and nothing was posted.
C16_Filtering ==
    Filtered =>
        LET Kept(file) == /\ file.status # "removed"
                          /\ \E k \in 1..Len(SALESFORCE_FILE_TYPES) :
                                EndsWith(file.filename, SALESFORCE_FILE_TYPES[k].extension)
        IN  /\ salesforceFiles = SelectSeq(prFiles, Kept)
            /\ \A i \in 1..Len(fileLog) : fileLog[i].file = salesforceFiles[i].filename
            /\ salesforceFiles = <<>> =>
                 /\ pc = "done"
                 /\ posts = <<>>
                 /\ providerLog = <<>> /\ callStatus = "none"
                 /\ fileLog = <<>> /\ reviewResults = <<>>

\* a pull request of a removed class and a file of no category: nothing to do
C16_Witness ==
    /\ Filtered
    /\ Len(prFiles) = 2
    /\ \E i \in 1..2 : prFiles[i].status = "removed"
    /\ salesforceFiles = <<>>
    /\ pc = "done"

\* for each finding the files of the log produced, in order, the path of the
\* file whose review produced it
RECURSIVE Origins(_)
Origins(log) ==
    IF log = <<>> THEN <<>>
    ELSE LET entry == log[Len(log)]
             count == IF entry.outcome = "reviewed"
                      THEN Len(Get(ParsedResponse[entry.text], "feedback").a)
                      ELSE 0
         IN  Origins(SubSeq(log, 1, Len(log) - 1)) \o [k \in 1..count |-> entry.file]

\* the paths of the changed files of the pull request that are not removed
\* and have a recognized category
ReviewablePaths ==
    {prFiles[i].filename : i \in {k \in 1..Len(prFiles) :
        /\ prFiles[k].status # "removed"
        /\ isSalesforceFile(prFiles[k].filename)}}

\* C17: every merged finding carries the path of the changed file whose
\* review produced it, whatever file the backend named, and so does every
\* inline comment, of the combined review or posted on its own; each such
\* path is the path of a changed file that is not removed and is recognized.
C17_OriginatingPath ==
    LET origins == Origins(fileLog)
    IN  /\ Len(allFeedback) = Len(origins)
        /\ \A k \in 1..Len(allFeedback) :
             /\ Get(allFeedback[k], "file") = JStr(origins[k])
             /\ origins[k] \in ReviewablePaths
        /\ \A i \in ReviewPosts :
             /\ Len(posts[i].comments) = Len(origins)
             /\ \A k \in 1..Len(posts[i].comments) :
                  posts[i].comments[k].path = JStr(origins[k])
        /\ \A i \in 1..Len(posts) :
             posts[i].kind = "inline" =>
                 \E k \in 1..Len(allFeedback) :
                     /\ posts[i].comment.path = JStr(origins[k])
                     /\ posts[i].comment.line = Get(allFeedback[k], "line")

\* the backend named Other.cls; the comment is on the file that was reviewed
C17_Witness ==
    /\ Len(fileLog) >= 1
    /\ fileLog[1].text = DocCriticalText
    /\ \E i \in ReviewPosts :
         /\ Len(posts[i].comments) >= 1
         /\ posts[i].comments[1].path = JStr(fileLog[1].file)
         /\ posts[i].comments[1].path # JStr("Other.cls")

\* the positions of the submissions that report results
ResultPosts ==
    {i \in 1..Len(posts) : posts[i].kind \in {"review", "inline", "summary-comment"}}

\* C18: no partial posting. Nothing that reports results is posted before
\* the loop has handled every file to review, and the combined review is
\* submitted at most once in a run.
C18_NoPartialPosting ==
    /\ ResultPosts # {} =>
         /\ pc \in {"inline", "done"}
         /\ Len(fileLog) = Len(salesforceFiles)
         /\ fileIdx > Len(salesforceFiles)
    /\ pc \in {"loop", "primary", "fallback"} => posts = <<>>
    /\ Cardinality(ReviewPosts) <= 1
    /\ \A i \in ReviewPosts : i = 1

\* two files were handled, then the combined review was refused and the
\* results went out one by one
C18_Witness ==
    /\ pc = "done"
    /\ Len(fileLog) = 2
    /\ Cardinality(ReviewPosts) = 1
    /\ Cardinality(ResultPosts) >= 3

\* `${error}` of the error the primary adapter throws when its timer fires first
PrimaryTimedOut == AdapterError(PrimaryProvider, [kind |-> "timeout", text |-> ""])

\* the loop is over for a run whose only file was reviewed with no finding
OnlyFileClean ==
    /\ Len(salesforceFiles) = 1
    /\ Len(fileLog) = 1
    /\ fileLog[1].outcome = "reviewed"
    /\ allFeedback = <<>>

\* the loop has just ended: the primary call of the only file timed out and the
\* fallback returned a review without findings
TimeoutThenCleanFallback ==
    /\ pc = "loop"
    /\ OnlyFileClean
    /\ callStatus = "returned"
    /\ primaryError = PrimaryTimedOut

\* C23: when the primary call of the only reviewed file timed out and the
\* fallback returned zero findings, the run composes and submits a combined
\* review with verdict APPROVE and no inline comment, and it posts neither an
\* individual comment nor an error comment.
C23_TimeoutScenario ==
    [][/\ TimeoutThenCleanFallback =>
            /\ ~SummaryThrows(reviewResults, prFiles)
            /\ posts' # posts =>
                  /\ Len(posts') = 1
                  /\ posts'[1].kind = "review"
                  /\ posts'[1].event = "APPROVE"
                  /\ posts'[1].comments = <<>>
       /\ OnlyFileClean =>
            \A i \in 1..Len(posts') : posts'[i].kind \notin {"inline", "error-comment"}
    ]_vars

\* the structured responses that hold one critical finding at line 5
CriticalAtLine5 ==
    {JsonDocuments[i].text : i \in
        {k \in 1..Len(JsonDocuments) :
            LET feedback == Get(JsonDocuments[k].value, "feedback")
            IN  /\ isValidLLMResponse(JsonDocuments[k].value)
                /\ Len(feedback.a) = 1
                /\ Get(feedback.a[1], "severity") = JStr("critical")
                /\ Get(feedback.a[1], "line") = JNum(5)}}

\* the loop has just ended for the pull request whose one changed file is
\* Foo.cls (added, +20/-0), reviewed with such a response
FooClsCritical ==
    /\ pc \in {"loop", "done"}
    /\ prFiles = <<FooCls>>
    /\ Len(fileLog) = 1
    /\ fileLog[1].outcome = "reviewed"
    /\ fileLog[1].text \in CriticalAtLine5

\* the combined review of the scenario: REQUEST_CHANGES with one inline comment
\* at line 5 of Foo.cls
OneCommentAtFooLine5(post) ==
    /\ post.kind = "review"
    /\ post.event = "REQUEST_CHANGES"
    /\ Len(post.comments) = 1
    /\ post.comments[1].path = JStr(FooCls.filename)
    /\ post.comments[1].line = JNum(5)

\* C24 as stated: with the single changed file Foo.cls (added, +20/-0) and a
\* well-formed structured response holding one critical finding at line 5, the
\* run composes and submits the verdict REQUEST_CHANGES with exactly one inline
\* comment at Foo.cls line 5, and the summary's risk tier is medium or high.
C24_CriticalScenario ==
    [][(FooClsCritical /\ pc = "loop") =>
          /\ ~SummaryThrows(reviewResults, prFiles)
          /\ posts' # posts =>
                /\ posts' = <<posts'[1]>>
                /\ OneCommentAtFooLine5(posts'[1])
                /\ posts'[1].body.riskLevel \in {"medium", "high"}
    ]_vars

\* C24 amended: the same verdict and inline comment, and the summary's risk
\* tier is high when the response supplies no risk tier and the supplied tier
\* when it does.
C24_CriticalScenarioTier ==
    [][(FooClsCritical /\ pc = "loop") =>
          /\ ~SummaryThrows(reviewResults, prFiles)
          /\ posts' # posts =>
                /\ posts' = <<posts'[1]>>
                /\ OneCommentAtFooLine5(posts'[1])
                /\ ExplicitRiskTiers = {} => posts'[1].body.riskLevel = "high"
                /\ ExplicitRiskTiers # {} => JStr(posts'[1].body.riskLevel) \in ExplicitRiskTiers
    ]_vars

\* the scenario ran with a response that supplies no risk tier, and the
\* combined review was accepted
C24_Witness ==
    /\ FooClsCritical
    /\ pc = "done"
    /\ ExplicitRiskTiers = {}
    /\ Len(posts) = 1
    /\ posts[1].ok
    /\ OneCommentAtFooLine5(posts[1])

\* the table entries whose extension the path ends with
MatchingEntries(path) ==
    {i \in 1..Len(SALESFORCE_FILE_TYPES) : EndsWith(path, SALESFORCE_FILE_TYPES[i].extension)}

\* C25: classification depends on the path's suffix alone: no extension of the
\* table ends with another one, so at most one entry matches a path;
\* getFileType returns that entry (whatever its place in the table) and null
\* when there is none, and isSalesforceFile is true exactly when getFileType
\* is not null.
C25_Classification ==
    fnPc = "returned" =>
        /\ \A i, j \in 1..Len(SALESFORCE_FILE_TYPES) :
              i # j => ~EndsWith(SALESFORCE_FILE_TYPES[i].extension,
                                 SALESFORCE_FILE_TYPES[j].extension)
        /\ Cardinality(MatchingEntries(fnArgs.path)) <= 1
        /\ \A i \in MatchingEntries(fnArgs.path) : fnResult.fileType = SALESFORCE_FILE_TYPES[i]
        /\ MatchingEntries(fnArgs.path) = {} => fnResult.fileType = NoFileType
        /\ fnResult.isSalesforceFile <=> fnResult.fileType # NoFileType

\* a metadata companion of a class, whose name also holds `.cls`, was classified
C25_Witness ==
    /\ fnPc = "returned"
    /\ fnArgs.path = "src/a.cls-meta.xml"
    /\ fnResult.fileType.extension = ".cls-meta.xml"
    /\ fnResult.isSalesforceFile

\* the message of the error createTimeoutPromise rejects with
TimeoutMessage == "LLM request timeout after " \o ToString(TimeoutMs) \o "ms"

\* the adapter calls of the last generateReview call that have settled
SettledCalls == {i \in 1..Len(providerLog) : providerLog[i].event \in {"ok", "fail"}}

\* C26: an adapter call whose timer fires first fails, with an error that
\* bears the timeout message, which no other failure of an adapter bears; the
\* text its backend answers afterwards is never the review of the file: the
\* review stored is the text of the adapter call that returned.
C26_TimeoutRace ==
    /\ \A i \in SettledCalls :
         /\ providerLog[i].kind = "timeout" =>
               providerLog[i].event = "fail" /\ Includes(providerLog[i].error, TimeoutMessage)
         /\ (providerLog[i].event = "fail" /\ providerLog[i].kind # "timeout") =>
               ~Includes(providerLog[i].error, "timeout")
    /\ (callStatus = "returned" /\ pc = "loop") =>
         \E i \in SettledCalls :
            /\ providerLog[i].event = "ok"
            /\ providerLog[i].kind = "text"
            /\ fileLog[Len(fileLog)].outcome = "reviewed"
            /\ fileLog[Len(fileLog)].text = providerLog[i].text
    /\ (callStatus = "failed" /\ pc = "loop") => fileLog[Len(fileLog)].outcome = "failed"

\* the primary's backend answered after its timer had fired, and the file's
\* review is the fallback's, another text
C26_Witness ==
    /\ pc = "loop"
    /\ callStatus = "returned"
    /\ \E i, j \in SettledCalls :
         /\ providerLog[i].provider = "primary"
         /\ providerLog[i].kind = "timeout"
         /\ providerLog[i].text # ""
         /\ providerLog[j].provider = "fallback"
         /\ providerLog[j].event = "ok"
         /\ providerLog[j].text # providerLog[i].text
         /\ fileLog[Len(fileLog)].text = providerLog[j].text

\* a raw response that is structurally empty (no text at all) or that decodes
\* to a value that is not of the shape of a review
EmptyOrMismatched(text) ==
    \/ Trim(text) = ""
    \/ LET decoded == JsonParse(CleanResponse(text))
       IN  decoded # NotJson /\ ~isValidLLMResponse(decoded)

\* C27: an adapter does not return a review for a raw backend response that
\* is structurally empty or of the wrong type: no file is recorded as reviewed
\* from such a response (the adapter fails and the fallback is tried).
C27_EmptyResponseFails ==
    \A i \in 1..Len(fileLog) :
        fileLog[i].outcome = "reviewed" => ~EmptyOrMismatched(fileLog[i].text)

\* C28: the visited set and the context set of a fetchContextFiles call are
\* its own: what a call returns holds only paths that this call visited and
\* at most the configured maximum of them, and the context set never exceeds
\* the maximum, also when two calls on one resolver interleave at their awaits.
C28_RunScopedState ==
    /\ Cardinality(DOMAIN sharedContext) <= MaxContextFiles
    /\ \A r \in RunIds :
         runs[r].pc = "done" =>
            /\ DOMAIN runs[r].result \subseteq runs[r].visited
            /\ Cardinality(DOMAIN runs[r].result) <= MaxContextFiles

\* the lines of the response parsed last
ParsedLines == SplitLines(responseText)

\* the file set by the last 'File:' line among the first n lines, "" when none
RECURSIVE FileSetBy(_, _)
FileSetBy(lines, n) ==
    IF n = 0 THEN ""
    ELSE IF MatchFile(Trim(lines[n])) # "" THEN Trim(MatchFile(Trim(lines[n])))
    ELSE FileSetBy(lines, n - 1)

\* the number set by the last 'Line <N>:' line among the first n lines, 0 when none
RECURSIVE LineSetBy(_, _)
LineSetBy(lines, n) ==
    IF n = 0 THEN 0
    ELSE IF MatchLine(Trim(lines[n])) # "" THEN ParseInt(MatchLine(Trim(lines[n])))
    ELSE LineSetBy(lines, n - 1)

\* line k comes after the lines that set a file and a line number, and is
\* longer than the threshold
ComesAfterBoth(lines, k) ==
    /\ FileSetBy(lines, k - 1) # ""
    /\ LineSetBy(lines, k - 1) > 0
    /\ Len(Trim(lines[k])) > MinFindingLength

\* the finding the heuristic is said to make of line k
FindingOfLine(lines, k) ==
    LET text == Trim(lines[k])
        lower == ToLowerCase(text)
        bears(words) == \E w \in words : Includes(lower, w)
    IN  JObj([line |-> JNum(LineSetBy(lines, k - 1)),
              message |-> JStr(text),
              severity |-> JStr(IF bears({"security", "vulnerability", "injection", "error"})
                                THEN "critical"
                                ELSE IF bears({"warning", "issue", "problem"})
                                THEN "warning" ELSE "improvement"),
              category |-> JStr(IF bears({"security", "injection", "vulnerability"})
                                THEN "security"
                                ELSE IF bears({"performance", "slow", "optimize"})
                                THEN "performance"
                                ELSE IF bears({"maintain", "complex", "refactor"})
                                THEN "maintainability"
                                ELSE IF bears({"best practice", "convention", "standard"})
                                THEN "best-practice" ELSE "bug"),
              file |-> JStr(FileSetBy(lines, k - 1))])

\* the response went to the heuristic extraction
HeuristicallyExtracted ==
    /\ pPc = "parsed"
    /\ LET decoded == JsonParse(CleanResponse(responseText))
       IN  decoded = NotJson \/ ~isValidLLMResponse(decoded)

\* C29: every finding of the heuristic extraction is made of a line of the
\* response that comes after a 'File:' line and a 'Line <N>:' line have set the
\* current file and the current line number and that is longer than the
\* threshold; it bears that file and that number, the severity critical,
\* warning or improvement by the keywords of its text, and the category its
\* keywords give, bug when none does.
C29_HeuristicExtraction ==
    HeuristicallyExtracted =>
        \A i \in 1..Len(Get(parsed, "feedback").a) :
            \E k \in 1..Len(ParsedLines) :
                /\ ComesAfterBoth(ParsedLines, k)
                /\ Get(parsed, "feedback").a[i] = FindingOfLine(ParsedLines, k)

\* the templated candidates of a dependency that the existence probes find
ExistingCandidates(dependency) ==
    {p \in Range(generatePossiblePaths(dependency, DirOf(fnArgs.currentFile))) :
        p \in RepoFiles /\ p \notin fnArgs.down}

\* the search matches of a dependency that belong to a recognized category
\* (none when the search fails), in the order of the search
RecognizedMatches(dependency) ==
    IF dependency \in fnArgs.searchDown THEN <<>>
    ELSE SelectSeq(SearchIndex(dependency), LAMBDA p : FileTypeOf[p] # NoFileType)

\* the first two of them
FirstTwoMatches(dependency) ==
    {RecognizedMatches(dependency)[i] : i \in DOMAIN RecognizedMatches(dependency) \cap {1, 2}}

\* C30: the path list resolved for a list of dependency names holds every
\* templated candidate that exists, for a name none of whose candidates exists
\* the first two search matches of a recognized category, and nothing else:
\* the search adds nothing for a name with an existing candidate; and no path
\* is in the list twice.
C30_PathDiscovery ==
    fnPc = "resolved" =>
        /\ Range(fnResult) =
             UNION {IF ExistingCandidates(dependency) # {}
                    THEN ExistingCandidates(dependency)
                    ELSE FirstTwoMatches(dependency) :
                    dependency \in Range(fnArgs.dependencies)}
        /\ \A i, j \in DOMAIN fnResult : fnResult[i] = fnResult[j] => i = j

\* a name resolved by its existing candidate next to a name with no candidate,
\* for which the search gives a match of no category and three recognized ones
C30_Witness ==
    /\ fnPc = "resolved"
    /\ fnArgs.dependencies = <<"B", "U">>
    /\ ExistingCandidates("B") = {PathB}
    /\ ExistingCandidates("U") = {}
    /\ Len(RecognizedMatches("U")) = 3
    /\ fnResult = <<PathB, PathU, PathU2>>

\* the names a list holds, without regard to order and repeats
NamesOf(seq) == {seq[i] : i \in DOMAIN seq}

\* no name is in the list twice
NoRepeats(seq) == \A i, j \in DOMAIN seq : seq[i] = seq[j] => i = j

\* C31 (as claimed): the names returned by extractDependencies are those the
\* Apex patterns capture for a class or trigger file and the import targets
\* for a component (lwc) file; for a file of any other category the list is
\* empty; no list holds a name twice.
C31_ExtractionByCategory ==
    fnPc = "extracted" =>
        /\ fnArgs.fileType.type \in {"apex-class", "apex-trigger"}
              => NamesOf(fnResult) = NamesOf(fnArgs.content.apex)
        /\ fnArgs.fileType.type = "lwc"
              => NamesOf(fnResult) = NamesOf(fnArgs.content.imports)
        /\ fnArgs.fileType.type \notin {"apex-class", "apex-trigger", "lwc"}
              => fnResult = <<>>
        /\ NoRepeats(fnResult)

\* C31 (amended): as above, but for an Aura file the list holds the component
\* tag names found in it; it is empty for the remaining categories.
C31_ExtractionWithAura ==
    fnPc = "extracted" =>
        /\ fnArgs.fileType.type \in {"apex-class", "apex-trigger"}
              => NamesOf(fnResult) = NamesOf(fnArgs.content.apex)
        /\ fnArgs.fileType.type = "lwc"
              => NamesOf(fnResult) = NamesOf(fnArgs.content.imports)
        /\ fnArgs.fileType.type = "aura"
              => NamesOf(fnResult) = NamesOf(fnArgs.content.aura)
        /\ fnArgs.fileType.type \notin {"apex-class", "apex-trigger", "lwc", "aura"}
              => fnResult = <<>>
        /\ NoRepeats(fnResult)

\* an Aura file whose tags repeat, in a content that also holds Apex references
C31_Witness ==
    /\ fnPc = "extracted"
    /\ fnArgs.fileType.type = "aura"
    /\ fnArgs.content.apex # <<>>
    /\ fnArgs.content.aura = <<"c:Foo", "lightning:button", "c:Foo">>
    /\ fnResult = <<"c:Foo", "lightning:button">>

\* C32: with MAX_CONTEXT_FILES, MAX_FILE_SIZE_KB and REVIEW_TIMEOUT_MS absent
\* from the environment the loaded configuration has review.maxContextFiles
\* 10, review.maxFileSizeKb 1000 and review.timeoutMs 300000.
C32_ReviewDefaults ==
    (fnPc = "loaded" /\ \A name \in ReviewVariables : fnArgs[name] = Absent) =>
        fnResult = [review |-> [maxContextFiles |-> 10, maxFileSizeKb |-> 1000,
                                timeoutMs |-> 300000]]

\* C33: a run of the resolver terminates, also on dependency cycles and
\* self-references: during a run the visited set only grows, no path's
\* content is fetched (and so expanded) more than once, the nesting of
\* processFile calls never exceeds the configured maximum, and every started
\* run returns.
C33_Termination ==
    /\ [][rPc = "loop" => visitedFiles \subseteq visitedFiles']_vars
    /\ [](\A path \in DOMAIN contentCalls : contentCalls[path] <= 1)
    /\ [](Len(depStack) + 1 <= MaxContextFiles)
    /\ (rPc = "loop") ~> (rPc = "done")

\* a returned run in which a class referring to itself and to a class that
\* refers back to it were both expanded
C33_Witness ==
    /\ rPc = "done"
    /\ \E i, j \in DOMAIN fetchLog :
         /\ fetchLog[i].path = PathA /\ fetchLog[i].content.apex = <<"A", "C">>
         /\ fetchLog[j].path = PathC /\ fetchLog[j].content.apex = <<"A", "C">>
         /\ fetchLog[j].depth = 1

\* the reviewed files of the given name
FilesNamed(filename) == {i \in DOMAIN salesforceFiles : salesforceFiles[i].filename = filename}

\* the code handed to the providers in the generateReview call under way
CodeUnderReview == {providerLog[i].code : i \in {j \in DOMAIN providerLog :
                                                   providerLog[j].event = "start"}}

\* the loop has just skipped a file
FileSkipped ==
    /\ Len(fileLog') = Len(fileLog) + 1
    /\ fileLog'[Len(fileLog')].outcome = "skipped"

\* C34: a file with a non-empty diff is reviewed on its diff and its full
\* content is never fetched; a file without a diff is reviewed on the full
\* content fetched for it; a file with neither (the fetched content is empty)
\* is skipped with no provider called for it and no review result added.
C34_CodeSelection ==
    /\ [](\A k \in DOMAIN fileFetches : \A i \in FilesNamed(fileFetches[k].file) :
             salesforceFiles[i].patch = "")
    /\ [](pc \in {"primary", "fallback"} =>
             LET file == salesforceFiles[fileIdx]
                 fetched == fileFetches[Len(fileFetches)]
             IN  IF file.patch # ""
                 THEN CodeUnderReview = {file.patch}
                 ELSE /\ fileFetches # <<>>
                      /\ fetched.file = file.filename /\ fetched.kind = "ok"
                      /\ fetched.text # ""
                      /\ CodeUnderReview = {fetched.text})
    /\ [](Len(reviewResults) =
             Cardinality({i \in DOMAIN fileLog : fileLog[i].outcome = "reviewed"}))
    /\ [][FileSkipped =>
             /\ pc = "loop" /\ pc' = "loop"
             /\ salesforceFiles[fileIdx].patch = ""
             /\ fileFetches' = Append(fileFetches,
                                      [file |-> salesforceFiles[fileIdx].filename,
                                       kind |-> "ok", text |-> ""])
             /\ providerLog' = <<>>
             /\ reviewResults' = reviewResults /\ allFeedback' = allFeedback]_vars

\* a run that reviewed one file on its diff and one on its fetched content
C34_Witness ==
    /\ pc = "done"
    /\ Len(fileLog) = 2
    /\ \A i \in 1..2 : fileLog[i].outcome = "reviewed"
    /\ salesforceFiles[1].patch # "" /\ salesforceFiles[2].patch = ""
    /\ fileFetches = <<[file |-> salesforceFiles[2].filename, kind |-> "ok",
                        text |-> FullFileText]>>

\* the first n characters of a text (all of it when it is shorter)
FirstChars(text, n) == IF Len(text) <= n THEN text ELSE SubSeq(text, 1, n)

\* the rendering of one context file: its heading, then inside a fence at most
\* the first 2000 characters of its content, followed by the marker exactly
\* when the content is longer than that
RenderingOf(file) ==
    "\n### " \o file.path \o " (" \o file.type \o "):\n" \o Fence \o "\n"
    \o FirstChars(file.content, 2000)
    \o (IF Len(file.content) <= 2000 THEN "" ELSE "\n... (truncated)")
    \o "\n" \o Fence \o "\n"

\* C35: an adapter renders an empty context as the empty text, and any other
\* context as the heading of the context block followed, for every context
\* file in order, by at most the first 2000 characters of its content, with
\* the truncation marker after them exactly when the content is longer than
\* 2000 characters.
C35_ContextRendering ==
    fnPc = "formatted" =>
        IF fnArgs.context = <<>> THEN fnResult = ""
        ELSE \E rest \in {IF Len(fnArgs.context) = 1 THEN ""
                           ELSE RenderingOf(fnArgs.context[2])} :
                fnResult = "\n\n## Context Files:\n"
                           \o RenderingOf(fnArgs.context[1]) \o rest

\* a context of a file of exactly 2000 characters, rendered whole, and a file
\* of 2001 characters, rendered cut
C35_Witness ==
    /\ fnPc = "formatted"
    /\ Len(fnArgs.context) = 2
    /\ Len(fnArgs.context[1].content) = 2000
    /\ Len(fnArgs.context[2].content) = 2001
    /\ Len(fnResult) = Len("\n\n## Context Files:\n")
                       + Len(RenderingOf(fnArgs.context[1])) + Len(RenderingOf(fnArgs.context[2]))
    /\ Len(RenderingOf(fnArgs.context[2])) - Len(RenderingOf(fnArgs.context[1]))
         = Len("\n... (truncated)") + Len(fnArgs.context[2].path) - Len(fnArgs.context[1].path)
           + Len(fnArgs.context[2].type) - Len(fnArgs.context[1].type)

\* where the merged findings point: per reviewed file in review order, per
\* finding of the backend's answer in its order, the file's path and the
\* finding's line
RECURSIVE Anchors(_)
Anchors(log) ==
    IF log = <<>> THEN <<>>
    ELSE LET entry == log[Len(log)]
             found == IF entry.outcome = "reviewed"
                      THEN Get(ParsedResponse[entry.text], "feedback").a ELSE <<>>
         IN  Anchors(SubSeq(log, 1, Len(log) - 1))
             \o [k \in 1..Len(found) |->
                   [path |-> JStr(entry.file), line |-> Get(found[k], "line")]]

\* path and line of each comment of a list
AnchorsOf(comments) ==
    [k \in 1..Len(comments) |-> [path |-> comments[k].path, line |-> comments[k].line]]

\* the individual comments attempted so far, in order
IndividualComments ==
    LET at == SelectSeq([i \in 1..Len(posts) |-> i], LAMBDA i : posts[i].kind = "inline")
    IN  [k \in 1..Len(at) |-> posts[at[k]].comment]

\* the run has ended through the individual-comment fallback
FallbackEnded ==
    /\ pc = "done" /\ salesforceFiles # <<>>
    /\ \A i \in ReviewPosts : ~posts[i].ok

\* C36: a combined review carries exactly one inline comment per merged
\* finding, in merged order (files in review order, findings in the backend's
\* order within a file), each on the finding's file path and line; the
\* individual-comment fallback attempts one comment for each of the same
\* findings, in the same order, on the same path and line.
C36_CommentsFollowFindings ==
    /\ \A i \in ReviewPosts : AnchorsOf(posts[i].comments) = Anchors(fileLog)
    /\ pc = "inline" =>
          AnchorsOf(IndividualComments) = SubSeq(Anchors(fileLog), 1, inlineIdx - 1)
    /\ FallbackEnded => AnchorsOf(IndividualComments) = Anchors(fileLog)

\* a combined review of two findings of two files that GitHub refused, and
\* the two individual comments attempted after it
C36_Witness ==
    /\ FallbackEnded
    /\ Len(fileLog) = 2
    /\ Len(Anchors(fileLog)) = 2
    /\ Anchors(fileLog)[1].path # Anchors(fileLog)[2].path
    /\ \E i \in ReviewPosts : Len(posts[i].comments) = 2
    /\ Len(IndividualComments) = 2

\* the loop is over and no file of the run was reviewed: each failed or was skipped
NothingReviewed ==
    /\ salesforceFiles # <<>>
    /\ Len(fileLog) = Len(salesforceFiles)
    /\ reviewResults = <<>>

\* C37: a run in which every per-file review failed or was skipped still goes
\* on to posting: the summary can be composed, the combined review it submits
\* has the verdict APPROVE, no inline comment and a summary of 0 files
\* reviewed, and the run posts no error comment (and no individual comment).
C37_NothingReviewedApproves ==
    /\ [][(pc = "loop" /\ NothingReviewed) =>
             /\ ~SummaryThrows(reviewResults, prFiles)
             /\ pc' \in {"inline", "done"}
             /\ posts' # posts =>
                   /\ Len(posts') = 1
                   /\ posts'[1].kind = "review"
                   /\ posts'[1].event = "APPROVE"
                   /\ posts'[1].comments = <<>>
                   /\ posts'[1].body.filesReviewed = 0
                   /\ posts'[1].body.totalIssues = 0]_vars
    /\ [](NothingReviewed =>
             /\ \A i \in 1..Len(posts) : posts[i].kind \notin {"inline", "error-comment"}
             /\ pc \in {"loop", "inline", "done"}
             /\ pc = "done" => posts # <<>>)

\* a run of two files, one failed and one skipped, whose combined review was accepted
C37_Witness ==
    /\ pc = "done"
    /\ NothingReviewed
    /\ Len(fileLog) = 2
    /\ {fileLog[1].outcome, fileLog[2].outcome} = {"failed", "skipped"}
    /\ Len(posts) = 1
    /\ posts[1].kind = "review" /\ posts[1].ok /\ posts[1].event = "APPROVE"

\* the label a rendered recommendation opens with, "none" when it has none
RecommendationLabel(recommendation) ==
    LET text == IF recommendation.t = "string" THEN recommendation.s ELSE ""
    IN  CASE StartsWith(text, "**APPROVE**") -> "APPROVE"
          [] StartsWith(text, "**REQUEST_CHANGES**") -> "REQUEST_CHANGES"
          [] StartsWith(text, "**COMMENT**") -> "COMMENT"
          [] OTHER -> "none"

\* the backend supplied a recommendation text with the PR analysis the summary uses
BackendRecommends ==
    Truthy(Get(extractPRAnalysis(reviewResults, prFiles), "recommendationSummary"))

\* C38: unless the backend supplied a recommendation text, the label the
\* recommendation of a combined review's summary opens with is the verdict
\* the review is submitted with, whatever the merged findings are.
C38_RecommendationMatchesVerdict ==
    \A i \in ReviewPosts :
        ~BackendRecommends =>
            RecommendationLabel(posts[i].body.recommendation) = posts[i].event

\* a combined review of one warning finding, the PR analysis taken from a
\* result that recommends nothing: recommendation and verdict are COMMENT
C38_Witness ==
    /\ ~BackendRecommends
    /\ \E i \in ReviewPosts :
          /\ posts[i].findings # <<>>
          /\ posts[i].event = "COMMENT"
          /\ RecommendationLabel(posts[i].body.recommendation) = "COMMENT"

\* the submissions of the run that are summary comments of the fallback
SummaryComments == {i \in 1..Len(posts) : posts[i].kind = "summary-comment"}

\* C39: when the listing of the changed files made for the summary fails,
\* no combined review is submitted, then or later, and the run goes to the
\* individual comments at once; the summary comment after them is rendered
\* from no changed files (0 lines added, 0 deleted) unless rendering it
\* throws; nothing the run submits carries a verdict, and the run never
\* reaches its error comment nor throws.
C39_ListingFailureFallsBack ==
    /\ [][(pc = "loop" /\ summaryListing' = "failed") =>
             /\ posts' = posts
             /\ pc' = "inline"
             /\ inlineIdx' = 1]_vars
    /\ [][(summaryListing = "failed" /\ pc = "inline" /\ inlineIdx > Len(allFeedback)) =>
             /\ pc' = "done"
             /\ IF SummaryThrows(reviewResults, <<>>) THEN posts' = posts
                ELSE /\ Len(posts') = Len(posts) + 1
                     /\ posts'[Len(posts')].kind = "summary-comment"]_vars
    /\ [](summaryListing = "failed" =>
             /\ ReviewPosts = {}
             /\ \A i \in 1..Len(posts) : posts[i].kind \in {"inline", "summary-comment"}
             /\ \A i \in SummaryComments :
                   /\ posts[i].body.linesAdded = 0
                   /\ posts[i].body.linesDeleted = 0
             /\ pc \in {"inline", "done"}
             /\ runError = "")

\* a run over changed files with added lines whose listing for the summary
\* failed: an individual comment and the summary comment were posted
C39_Witness ==
    /\ pc = "done"
    /\ summaryListing = "failed"
    /\ SumAdditions(prFiles) > 0
    /\ Len(posts) >= 2
    /\ posts[1].kind = "inline"
    /\ posts[Len(posts)].kind = "summary-comment"
    /\ posts[Len(posts)].ok

\* the findings of the reviews a call was returned, each under the file it
\* was returned for
RECURSIVE FindingsOfLog(_)
FindingsOfLog(log) ==
    IF log = <<>> THEN <<>>
    ELSE MapFeedback(ParsedResponse[Head(log).text], Head(log).file)
         \o FindingsOfLog(Tail(log))

\* the findings call r was returned for its own files
OwnFindings(r) == FindingsOfLog(reviews[r].log)

\* how many of the first i submissions of call r are individual comments
InlineCount(r, i) == Cardinality({j \in 1..i : reviews[r].posts[j].kind = "inline"})

\* C40: run isolation. With two runs on one service interleaved in every
\* way, each run is returned reviews for files of its own pull request only,
\* and what it submits is made of the findings of those reviews alone: the
\* findings, the inline comments, the verdict and the number of files
\* reviewed of its combined review, and each individual comment of its fallback.
C40_RunIsolation ==
    \A r \in ReviewIds :
        /\ \A k \in 1..Len(reviews[r].log) :
              \E i \in 1..Len(ReviewInputs[r]) :
                  ReviewInputs[r][i].filename = reviews[r].log[k].file
        /\ \A i \in 1..Len(reviews[r].posts) :
              LET post == reviews[r].posts[i]
                  own == OwnFindings(r)
              IN  /\ post.kind = "review" =>
                        /\ post.findings = own
                        /\ post.comments = [k \in 1..Len(own) |-> InlineComment(own[k])]
                        /\ post.event = ReviewEvent(own)
                        /\ post.body.filesReviewed = Len(reviews[r].log)
                        /\ post.body.totalIssues = Len(own)
                  /\ post.kind = "inline" =>
                        /\ InlineCount(r, i) <= Len(own)
                        /\ post.comment = FallbackComment(own[InlineCount(r, i)])

\* both runs in flight: the second, of Bar.trigger, is in its fallback after
\* a combined review with a finding that GitHub refused, while the first
\* awaits the review of its second file with a finding of Foo.cls stored
C40_Witness ==
    /\ reviews[1].pc = "reviewing"
    /\ Len(OwnFindings(1)) = 1
    /\ Get(OwnFindings(1)[1], "file") = JStr(FooCls.filename)
    /\ reviews[2].pc = "inline"
    /\ Len(reviews[2].posts) = 1
    /\ reviews[2].posts[1].kind = "review"
    /\ reviews[2].posts[1].event = "REQUEST_CHANGES"
    /\ Len(reviews[2].posts[1].comments) = 1
    /\ reviews[2].posts[1].comments[1].path = JStr(BarTrigger.filename)

====
